---- MODULE Spec2Model ----
(***************************************************************************)
(* Dual-projection forest-loss simulation (backend/app/routers/simulate.py) *)
(*                                                                         *)
(* Python floats are modelled as exact rationals <<num, den>> (den > 0,    *)
(* lowest terms).  A division by zero yields NaR (<<0, 0>>), which the     *)
(* functions below turn into the ZeroDivisionError Python raises.  The    *)
(* only irrational quantity, (i / years_to_target) ** 1.5, is truncated   *)
(* to AccScale-ths.                                                        *)
(***************************************************************************)
EXTENDS Integers, Sequences, FiniteSets, TLC

VARIABLES pc, country_iso, loss_fraction, target_year, forest_area, emissions,
          historical, user_scenario, trend_projection, trend_timeline, response,
          req, retry, calls, frames

vars == <<pc, country_iso, loss_fraction, target_year, forest_area, emissions,
          historical, user_scenario, trend_projection, trend_timeline, response,
          req, retry, calls, frames>>

\* the HTTP request being served, the state of simulate_with_retry, and the
\* arguments, positions and local variables of concurrent invocations (calls
\* also holds the argument of a fetch function called on its own)
outer == <<req, retry, calls, frames>>

----------------------------------------------------------------------------
(* Bounds of the model *)

MaxRecords == 5

\* largest number of records in a raw answer to get_historical_loss called on its own
MaxRaw == 2

\* largest max_retries simulate_with_retry is called with (its default is 3)
MaxRetries == 3

MaxYearsAhead == 3

AccScale == 100

----------------------------------------------------------------------------
(* Rational arithmetic standing for Python float arithmetic *)

Abs(n) == IF n < 0 THEN -n ELSE n

RECURSIVE GCD(_, _)
GCD(a, b) == IF b = 0 THEN a ELSE GCD(b, a % b)

NaR == <<0, 0>>

Norm(n, d) ==
    IF d = 0 THEN NaR
    ELSE LET g == GCD(Abs(n), Abs(d))
             s == IF d < 0 THEN -1 ELSE 1
         IN  <<(s * n) \div g, (s * d) \div g>>

R(n) == <<n, 1>>

Zero == R(0)

One == R(1)

IsNaR(a) == a[2] = 0

RAdd(a, b) == Norm(a[1] * b[2] + b[1] * a[2], a[2] * b[2])

RSub(a, b) == Norm(a[1] * b[2] - b[1] * a[2], a[2] * b[2])

RMul(a, b) == Norm(a[1] * b[1], a[2] * b[2])

RDiv(a, b) == Norm(a[1] * b[2], a[2] * b[1])

RLt(a, b) == a[1] * b[2] < b[1] * a[2]

RLe(a, b) == a[1] * b[2] <= b[1] * a[2]

RGt(a, b) == RLt(b, a)

RGe(a, b) == RLe(b, a)

\* Python max(a, b) / min(a, b) on floats
RMax(a, b) == IF RGt(b, a) THEN b ELSE a

RMin(a, b) == IF RLt(b, a) THEN b ELSE a

RECURSIVE RSum(_)
RSum(s) == IF s = <<>> THEN Zero ELSE RAdd(Head(s), RSum(Tail(s)))

RECURSIVE ISum(_)
ISum(s) == IF s = <<>> THEN 0 ELSE Head(s) + ISum(Tail(s))

\* Python round(x, 1): nearest tenth, ties to the even tenth
Round1(x) ==
    LET n10 == 10 * x[1]
        q == n10 \div x[2]
        r2 == 2 * (n10 % x[2])
        k == IF r2 > x[2] THEN q + 1
             ELSE IF r2 < x[2] THEN q
             ELSE IF q % 2 = 0 THEN q ELSE q + 1
    IN  Norm(k, 10)

\* Python s[-k:]
LastN(s, k) == IF Len(s) <= k THEN s ELSE SubSeq(s, Len(s) - k + 1, Len(s))

Years(h) == [j \in 1..Len(h) |-> h[j].year]

Losses(h) == [j \in 1..Len(h) |-> h[j].loss_ha]

MaxYear(h) == CHOOSE y \in {h[j].year : j \in 1..Len(h)} :
                  \A j \in 1..Len(h) : h[j].year <= y

MinYear(h) == CHOOSE y \in {h[j].year : j \in 1..Len(h)} :
                  \A j \in 1..Len(h) : y <= h[j].year

----------------------------------------------------------------------------
(* calculate_trend_projection *)

\* max(0, min(projected_loss, max_annual_loss))
ClampLossUnbounded(projected_loss, max_annual_loss) == projected_loss

ClampLoss(projected_loss, max_annual_loss) ==
    RMax(Zero, RMin(projected_loss, max_annual_loss))

\* historical[-5:] if len(historical) >= 5 else historical[-3:]
RecentWindowLastThree(h) == LastN(h, 3)

RecentWindow(h) == IF Len(h) >= 5 THEN LastN(h, 5) ELSE LastN(h, 3)

\* (n * sum_x2 - sum_x * sum_x) != 0
RegressionDefinedAlways(denom) == TRUE

RegressionDefined(denom) == denom # 0

calculate_trend_projection(h, ty, fa) ==
    IF Len(h) < 3
    THEN IF Len(h) = 0
         THEN [exc |-> "ZeroDivisionError"]
         ELSE [exc |-> "none", method |-> "simple_average",
               annual_loss_ha |-> RDiv(RSum(Losses(h)), R(Len(h)))]
    ELSE LET recent_data == RecentWindow(h)
             recent_years == Years(recent_data)
             recent_losses == Losses(recent_data)
             n == Len(recent_years)
             sum_x == ISum(recent_years)
             sum_y == RSum(recent_losses)
             sum_xy == RSum([j \in 1..n |-> RMul(R(recent_years[j]), recent_losses[j])])
             sum_x2 == ISum([j \in 1..n |-> recent_years[j] * recent_years[j]])
             denom == n * sum_x2 - sum_x * sum_x
         IN  IF RegressionDefined(denom)
             THEN LET slope == RDiv(RSub(RMul(R(n), sum_xy), RMul(R(sum_x), sum_y)), R(denom))
                      intercept == RDiv(RSub(sum_y, RMul(slope, R(sum_x))), R(n))
                      projected_loss == RAdd(RMul(slope, R(ty)), intercept)
                      max_annual_loss == RMul(fa, <<1, 20>>)
                  IN  IF IsNaR(slope)
                      THEN [exc |-> "ZeroDivisionError"]
                      ELSE [exc |-> "none", method |-> "linear_trend",
                            annual_loss_ha |-> ClampLoss(projected_loss, max_annual_loss),
                            trend_slope |-> slope]
             ELSE [exc |-> "none", method |-> "recent_average",
                   annual_loss_ha |-> RDiv(sum_y, R(Len(recent_losses)))]

----------------------------------------------------------------------------
(* create_user_scenario_projection *)

DefaultParams == [max_growth_rate |-> <<1, 5>>, volatility |-> "medium"]

\* the lookup with the first table entry as its fallback
country_paramsFirstEntry(c) ==
    IF c = "IDN" THEN [max_growth_rate |-> <<1, 4>>, volatility |-> "high"]
    ELSE [max_growth_rate |-> <<3, 10>>, volatility |-> "high"]

country_params(c) ==
    CASE c = "BRA" -> [max_growth_rate |-> <<3, 10>>, volatility |-> "high"]
      [] c = "IDN" -> [max_growth_rate |-> <<1, 4>>, volatility |-> "high"]
      [] c = "PAK" -> [max_growth_rate |-> <<1, 5>>, volatility |-> "low"]
      [] c = "IND" -> [max_growth_rate |-> <<3, 20>>, volatility |-> "medium"]
      [] c = "GBR" -> [max_growth_rate |-> <<1, 10>>, volatility |-> "very_low"]
      [] c = "USA" -> [max_growth_rate |-> <<1, 10>>, volatility |-> "low"]
      [] OTHER -> DefaultParams

\* floor(sqrt(x)) for 0 <= x <= AccScale^2
ISqrt(x) == CHOOSE k \in 0..AccScale : k * k <= x /\ x < (k + 1) * (k + 1)

\* (i / years_to_target) ** 1.5, truncated to AccScale-ths
Acceleration(i, years_to_target) ==
    Norm(ISqrt((AccScale * AccScale * i * i * i)
                 \div (years_to_target * years_to_target * years_to_target)),
         AccScale)

\* recent_avg * (1 + acceleration * 3)
BaseLoss(i, years_to_target, recent_avg) ==
    RMul(recent_avg, RAdd(One, RMul(Acceleration(i, years_to_target), R(3))))

\* base_loss = max(base_loss, final_loss) on the final index
FinalYearLossForced(base_loss, final_loss) == final_loss

FinalYearLoss(base_loss, final_loss) == RMax(base_loss, final_loss)

Point(y, l, t) == [year |-> y, loss_ha |-> l, type |-> t]

\* the low-magnitude loop
LinearTimeline(last_year, years_to_target, user_total_loss) ==
    LET annual_loss == RDiv(user_total_loss, R(years_to_target))
    IN  [i \in 1..years_to_target |->
            Point(last_year + i, annual_loss, "projected_user_scenario")]

\* the high-magnitude loop; st carries projected_timeline and total_distributed
RECURSIVE AcceleratingLoop(_, _, _, _, _, _)
AcceleratingLoop(i, last_year, years_to_target, recent_avg, user_total_loss, st) ==
    IF i > years_to_target THEN st.timeline
    ELSE LET raw == BaseLoss(i, years_to_target, recent_avg)
             base_loss == IF i = years_to_target
                          THEN FinalYearLoss(raw, RSub(user_total_loss, st.total_distributed))
                          ELSE raw
         IN  AcceleratingLoop(i + 1, last_year, years_to_target, recent_avg, user_total_loss,
                 [timeline |-> Append(st.timeline,
                                  Point(last_year + i, base_loss, "projected_user_scenario")),
                  total_distributed |-> RAdd(st.total_distributed, base_loss)])

AcceleratingTimeline(last_year, years_to_target, recent_avg, user_total_loss) ==
    AcceleratingLoop(1, last_year, years_to_target, recent_avg, user_total_loss,
                     [timeline |-> <<>>, total_distributed |-> Zero])

\* loss_fraction <= 0.02 selects the linear distribution
IsLowMagnitudeStrict(lf) == RLt(lf, <<1, 50>>)

IsLowMagnitude(lf) == RLe(lf, <<1, 50>>)

\* years_to_target <= 0 is rejected
TargetRejectedNegativeOnly(years_to_target) == years_to_target < 0

TargetRejected(years_to_target) == years_to_target <= 0

create_user_scenario_projection(h, ty, lf, fa, c) ==
    IF Len(h) = 0
    THEN [exc |-> "ValueError"]
    ELSE LET last_year == MaxYear(h)
             years_to_target == ty - last_year
         IN  IF TargetRejected(years_to_target)
             THEN [exc |-> "HTTPException", status_code |-> 400]
             ELSE LET user_total_loss == RMul(fa, lf)
                      recent_losses == Losses(LastN(h, 3))
                      recent_avg == RDiv(RSum(recent_losses), R(Len(recent_losses)))
                  IN  [exc |-> "none",
                       method |-> "user_scenario",
                       target_loss_fraction |-> lf,
                       total_target_loss_ha |-> user_total_loss,
                       years_to_target |-> years_to_target,
                       projection_timeline |->
                           IF IsLowMagnitude(lf)
                           THEN LinearTimeline(last_year, years_to_target, user_total_loss)
                           ELSE AcceleratingTimeline(last_year, years_to_target,
                                                     recent_avg, user_total_loss),
                       parameters_used |-> country_params(c)]

----------------------------------------------------------------------------
(* create_trend_projection_timeline *)

create_trend_projection_timelineExclusive(trend_data, h, ty) ==
    LET last_year == MaxYear(h)
    IN  [j \in 1..(IF ty > last_year THEN ty - last_year - 1 ELSE 0) |->
            Point(last_year + j, trend_data.annual_loss_ha, "projected_trend_based")]

create_trend_projection_timeline(trend_data, h, ty) ==
    LET last_year == MaxYear(h)
    IN  [j \in 1..(IF ty > last_year THEN ty - last_year ELSE 0) |->
            Point(last_year + j, trend_data.annual_loss_ha, "projected_trend_based")]

----------------------------------------------------------------------------
(* get_geostore, get_forest_area, get_carbon_emissions, get_historical_loss *)

HTTPError(code, who) == [kind |-> "http", status_code |-> code, raised_by |-> who]

Fault(e, who) == [kind |-> "fault", exc |-> e, raised_by |-> who]

\* resp.status_code != 200
\* requests.get(...) raised instead of returning a response
TransportFailed(resp) == resp.raised

get_geostore(resp) ==
    IF TransportFailed(resp) THEN [exc |-> "RequestException"]
    ELSE IF resp.status_code # 200
    THEN [exc |-> "HTTPException", status_code |-> 404]
    ELSE [exc |-> "none", value |-> resp.data]

\* a baseline query: non-200, empty data or a null aggregate raise 500
baseline_query(resp) ==
    IF TransportFailed(resp) THEN [exc |-> "RequestException"]
    ELSE IF resp.status_code # 200
    THEN [exc |-> "HTTPException", status_code |-> 500]
    ELSE IF resp.data = <<>> \/ resp.data[1].t = "none"
         THEN [exc |-> "HTTPException", status_code |-> 500]
         ELSE [exc |-> "none", value |-> resp.data[1].v]

get_forest_area(resp) == baseline_query(resp)

get_carbon_emissions(resp) == baseline_query(resp)

\* `if not raw_data` / `if not cleaned`
EmptyAccepted(s) == FALSE

EmptyRejected(s) == s = <<>>

\* year_int >= 2001 and year_int <= 2030
YearInRangeNoUpperLimit(year_int) == year_int >= 2001

YearInRange(year_int) == year_int >= 2001 /\ year_int <= 2030

\* one iteration of the cleaning loop: the cleaned record, or <<>> when skipped
CleanRecord(record) ==
    IF record.year.t \in {"none", "null_str"} THEN <<>>
    ELSE IF record.year.t = "bad_str" \/ record.loss_ha.t = "bad_str" THEN <<>>
    ELSE LET year_int == record.year.v
             loss_float == IF record.loss_ha.t = "none" THEN Zero ELSE record.loss_ha.v
         IN  IF YearInRange(year_int)
             THEN <<[year |-> year_int, loss_ha |-> loss_float]>>
             ELSE <<>>

RECURSIVE CleanAll(_)
CleanAll(raw) == IF raw = <<>> THEN <<>> ELSE CleanRecord(Head(raw)) \o CleanAll(Tail(raw))

get_historical_loss(resp) ==
    IF TransportFailed(resp) THEN [exc |-> "RequestException"]
    ELSE IF resp.status_code # 200
    THEN [exc |-> "HTTPException", status_code |-> 500]
    ELSE IF EmptyRejected(resp.data)
         THEN [exc |-> "HTTPException", status_code |-> 500]
         ELSE LET cleaned == CleanAll(resp.data)
              IN  IF EmptyRejected(cleaned)
                  THEN [exc |-> "HTTPException", status_code |-> 500]
                  ELSE [exc |-> "none", value |-> cleaned]

----------------------------------------------------------------------------
(* Inputs *)

HistoryEndYears == {2022}

LossVals == {0, 100, 200}

\* n records ending at year e, s years apart (s = 0: one year repeated)
YearsOf(n, e, s) == [j \in 1..n |-> e - s * (n - j)]

MkHistory(ys, ls) == [j \in 1..Len(ys) |-> [year |-> ys[j], loss_ha |-> R(ls[j])]]

GridHistories ==
    UNION {{MkHistory(YearsOf(n, e, s), ls) : ls \in [1..n -> LossVals]} :
             <<n, e, s>> \in (1..MaxRecords) \X HistoryEndYears \X {0, 1}}

\* loss = a * year + c with loss 140 in the last year
LinearHistories ==
    {MkHistory(YearsOf(n, e, s), [j \in 1..n |-> 140 - a * s * (n - j)]) :
        <<n, e, s, a>> \in (3..MaxRecords) \X HistoryEndYears \X {1, 2} \X {-60, -10, 10}}

ConstHistories ==
    {MkHistory(YearsOf(n, e, s), [j \in 1..n |-> v]) :
        <<n, e, s, v>> \in (1..MaxRecords) \X HistoryEndYears \X {0, 1} \X {-100, 0, 100}}

\* histories with negative records, which the cleaning loop lets through
SignedHistories ==
    UNION {{MkHistory(YearsOf(n, e, 1), ls) : ls \in [1..n -> {-100, 100}]} :
             <<n, e>> \in (1..MaxRecords) \X HistoryEndYears}

\* one more record in front of a history that already fills the 5-record window
LongHistories ==
    {<<[year |-> h[1].year - 1, loss_ha |-> R(v)]>> \o h :
        v \in LossVals, h \in {g \in LinearHistories \cup ConstHistories : Len(g) >= 5}}

Histories == GridHistories \cup LinearHistories \cup LongHistories

TargetYears == {2018, 2022} \cup {2022 + k : k \in 1..MaxYearsAhead}

Fractions == {<<1, 100>>, <<1, 50>>, <<3, 100>>, <<1, 10>>}

ForestAreas == {R(0), R(1000), R(10000)}

Emissions == {R(0), R(50000)}

Countries == {"BRA", "XXX"}

\* fractions on both sides of the 0.02 and 0.05 thresholds
RequestFractions == Fractions \cup {<<1, 20>>, <<3, 50>>}

RawNum(v) == [t |-> "num", v |-> v]

RawRecordOf(r) == [year |-> RawNum(r.year), loss_ha |-> RawNum(r.loss_ha)]

RawOf(h) == [j \in 1..Len(h) |-> RawRecordOf(h[j])]

\* records the cleaning loop drops
DroppedRecords ==
    {[year |-> [t |-> "none"], loss_ha |-> RawNum(R(100))],
     [year |-> RawNum(2000), loss_ha |-> RawNum(R(100))]}

RawDatas ==
    {RawOf(h) : h \in ConstHistories \cup LinearHistories \cup LongHistories \cup {<<>>}}
    \cup {<<d>> \o RawOf(h) : d \in DroppedRecords,
                               h \in {<<>>} \cup {g \in LinearHistories : Len(g) = 3}}

Responses(datas) ==
    {[status_code |-> 200, data |-> d, raised |-> FALSE] : d \in datas}
    \cup {[status_code |-> 500, data |-> <<>>, raised |-> FALSE],
          [status_code |-> 0, data |-> <<>>, raised |-> TRUE]}

BaselineDatas(vals) == {<<>>, <<[t |-> "none"]>>} \cup {<<RawNum(v)>> : v \in vals}

----------------------------------------------------------------------------
(* State *)

Unset == [exc |-> "unset"]

NoResponse == [kind |-> "none"]

TypeOK ==
    /\ pc \in {"get_geostore", "get_forest_area", "get_carbon_emissions",
               "get_historical_loss", "create_user_scenario_projection",
               "calculate_trend_projection", "create_trend_projection_timeline",
               "assemble", "returned", "call", "called", "request",
               "simulate_with_retry", "invocations", "parse_nl_query"}
    /\ response.kind \in {"none", "ok", "http", "fault", "error"}

InitRequest ==
    /\ country_iso \in Countries
    /\ loss_fraction \in RequestFractions
    /\ target_year \in TargetYears

InitLocals ==
    /\ user_scenario = Unset
    /\ trend_projection = Unset
    /\ trend_timeline = <<>>
    /\ response = NoResponse

\* simulate_forest_loss_dual called directly, not through a route
NoRoute == req = [route |-> "none"]

NoRetry == retry = [status |-> "none"]

NoPair == calls = <<>> /\ frames = <<>>

\* simulate_forest_loss_dual is entered with the request's arguments
Init ==
    /\ pc = "get_geostore"
    /\ InitRequest
    /\ forest_area = Zero
    /\ emissions = Zero
    /\ historical = <<>>
    /\ InitLocals
    /\ NoRoute
    /\ NoRetry
    /\ NoPair

Running(at) == pc = at /\ response.kind = "none"

\* the statement that follows each statement of simulate_forest_loss_dual
StepAfterTrendFirst(at) ==
    CASE at = "get_geostore" -> "get_forest_area"
      [] at = "get_forest_area" -> "get_carbon_emissions"
      [] at = "get_carbon_emissions" -> "get_historical_loss"
      [] at = "get_historical_loss" -> "calculate_trend_projection"
      [] at = "calculate_trend_projection" -> "create_user_scenario_projection"
      [] at = "create_user_scenario_projection" -> "create_trend_projection_timeline"
      [] at = "create_trend_projection_timeline" -> "assemble"
      [] at = "assemble" -> "returned"

StepAfter(at) ==
    CASE at = "get_geostore" -> "get_forest_area"
      [] at = "get_forest_area" -> "get_carbon_emissions"
      [] at = "get_carbon_emissions" -> "get_historical_loss"
      [] at = "get_historical_loss" -> "create_user_scenario_projection"
      [] at = "create_user_scenario_projection" -> "calculate_trend_projection"
      [] at = "calculate_trend_projection" -> "create_trend_projection_timeline"
      [] at = "create_trend_projection_timeline" -> "assemble"
      [] at = "assemble" -> "returned"

Raise(r, who) ==
    response' = IF r.exc = "HTTPException" THEN HTTPError(r.status_code, who)
                ELSE Fault(r.exc, who)

----------------------------------------------------------------------------
(* simulate_forest_loss_dual, step by step *)

GetGeostore ==
    /\ Running("get_geostore")
    /\ UNCHANGED outer
    /\ \E resp \in Responses({"geostore"}) :
          LET r == get_geostore(resp)
          IN  IF r.exc # "none"
              THEN /\ Raise(r, "get_geostore")
                   /\ UNCHANGED pc
              ELSE /\ pc' = StepAfter("get_geostore")
                   /\ UNCHANGED response
    /\ UNCHANGED <<country_iso, loss_fraction, target_year, forest_area, emissions,
                   historical, user_scenario, trend_projection, trend_timeline>>

GetForestArea ==
    /\ Running("get_forest_area")
    /\ UNCHANGED outer
    /\ \E resp \in Responses(BaselineDatas(ForestAreas)) :
          LET r == get_forest_area(resp)
          IN  IF r.exc # "none"
              THEN /\ Raise(r, "get_forest_area")
                   /\ UNCHANGED <<pc, forest_area>>
              ELSE /\ forest_area' = r.value
                   /\ pc' = StepAfter("get_forest_area")
                   /\ UNCHANGED response
    /\ UNCHANGED <<country_iso, loss_fraction, target_year, emissions,
                   historical, user_scenario, trend_projection, trend_timeline>>

GetCarbonEmissions ==
    /\ Running("get_carbon_emissions")
    /\ UNCHANGED outer
    /\ \E resp \in Responses(BaselineDatas(Emissions)) :
          LET r == get_carbon_emissions(resp)
          IN  IF r.exc # "none"
              THEN /\ Raise(r, "get_carbon_emissions")
                   /\ UNCHANGED <<pc, emissions>>
              ELSE /\ emissions' = r.value
                   /\ pc' = StepAfter("get_carbon_emissions")
                   /\ UNCHANGED response
    /\ UNCHANGED <<country_iso, loss_fraction, target_year, forest_area,
                   historical, user_scenario, trend_projection, trend_timeline>>

GetHistoricalLoss ==
    /\ Running("get_historical_loss")
    /\ UNCHANGED outer
    /\ \E resp \in Responses(RawDatas) :
          LET r == get_historical_loss(resp)
          IN  IF r.exc # "none"
              THEN /\ Raise(r, "get_historical_loss")
                   /\ UNCHANGED <<pc, historical>>
              ELSE /\ historical' = r.value
                   /\ pc' = StepAfter("get_historical_loss")
                   /\ UNCHANGED response
    /\ UNCHANGED <<country_iso, loss_fraction, target_year, forest_area, emissions,
                   user_scenario, trend_projection, trend_timeline>>

CreateUserScenario ==
    /\ Running("create_user_scenario_projection")
    /\ UNCHANGED outer
    /\ LET r == create_user_scenario_projection(historical, target_year, loss_fraction,
                                                forest_area, country_iso)
       IN  IF r.exc # "none"
           THEN /\ Raise(r, "create_user_scenario_projection")
                /\ UNCHANGED <<pc, user_scenario>>
           ELSE /\ user_scenario' = r
                /\ pc' = StepAfter("create_user_scenario_projection")
                /\ UNCHANGED response
    /\ UNCHANGED <<country_iso, loss_fraction, target_year, forest_area, emissions,
                   historical, trend_projection, trend_timeline>>

CalculateTrend ==
    /\ Running("calculate_trend_projection")
    /\ UNCHANGED outer
    /\ LET r == calculate_trend_projection(historical, target_year, forest_area)
       IN  IF r.exc # "none"
           THEN /\ Raise(r, "calculate_trend_projection")
                /\ UNCHANGED <<pc, trend_projection>>
           ELSE /\ trend_projection' = r
                /\ pc' = StepAfter("calculate_trend_projection")
                /\ UNCHANGED response
    /\ UNCHANGED <<country_iso, loss_fraction, target_year, forest_area, emissions,
                   historical, user_scenario, trend_timeline>>

CreateTrendTimeline ==
    /\ Running("create_trend_projection_timeline")
    /\ UNCHANGED outer
    /\ trend_timeline' = create_trend_projection_timeline(trend_projection, historical,
                                                          target_year)
    /\ pc' = StepAfter("create_trend_projection_timeline")
    /\ UNCHANGED <<country_iso, loss_fraction, target_year, forest_area, emissions,
                   historical, user_scenario, trend_projection, response>>

\* step 5: observed records followed by the user-scenario points
combined_timeseriesProjectedOnly(h, user_timeline) == user_timeline

combined_timeseries(h, user_timeline) ==
    [j \in 1..Len(h) |-> Point(h[j].year, h[j].loss_ha, "observed")] \o user_timeline

\* emissions / forest_area if forest_area > 0 else 0
EmissionsPerHaUnguarded(em, fa) == RDiv(em, fa)

EmissionsPerHa(em, fa) == IF RGt(fa, Zero) THEN RDiv(em, fa) ELSE Zero

\* round(numer / denom, 1) if denom > 0 else "infinite"
MultiplierUnrounded(numer, denom) ==
    IF RGt(denom, Zero) THEN [t |-> "num", v |-> RDiv(numer, denom)]
    ELSE [t |-> "infinite"]

Multiplier(numer, denom) ==
    IF RGt(denom, Zero) THEN [t |-> "num", v |-> Round1(RDiv(numer, denom))]
    ELSE [t |-> "infinite"]

scenario_realismInclusive(lf) ==
    IF RGe(lf, <<1, 20>>) THEN "hypothetical"
    ELSE IF RGt(lf, <<1, 50>>) THEN "aggressive" ELSE "plausible"

scenario_realism(lf) ==
    IF RGt(lf, <<1, 20>>) THEN "hypothetical"
    ELSE IF RGt(lf, <<1, 50>>) THEN "aggressive" ELSE "plausible"

\* co2_impact / 1000
MgToTonsUnconverted(x) == x

MgToTons(x) == RDiv(x, R(1000))

\* sum(r["loss_ha"] for r in historical[-5:]) / min(5, len(historical))
RecentAverageOfAll(h) == RDiv(RSum(Losses(h)), R(Len(h)))

RecentAverage(h) == RDiv(RSum(Losses(LastN(h, 5))), R(IF Len(h) < 5 THEN Len(h) ELSE 5))

\* steps 5 and 6 and the returned dict
SimulationResult(c, lf, ty, fa, em, h, us, tp, tt) ==
    LET user_total_loss == RSum(Losses(us.projection_timeline))
        trend_total_loss == RSum(Losses(tt))
        recent_avg == RecentAverage(h)
        historical_total == RSum(Losses(h))
        emissions_per_ha == EmissionsPerHa(em, fa)
        user_co2_impact == RMul(user_total_loss, emissions_per_ha)
        trend_co2_impact == RMul(trend_total_loss, emissions_per_ha)
        user_avg == RDiv(user_total_loss, R(us.years_to_target))
    IN  [country_iso |-> c,
         forest_area_ha |-> fa,
         baseline_emissions_Mg_CO2e |-> em,
         analysis_period |->
            [historical_years |-> <<MinYear(h), MaxYear(h)>>,
             projection_target_year |-> ty,
             years_projected |-> ty - MaxYear(h)],
         projections |->
            [user_scenario |->
                [method |-> us.method,
                 total_loss_ha |-> user_total_loss,
                 total_co2_tons |-> MgToTons(user_co2_impact),
                 avg_annual_loss_ha |-> user_avg,
                 timeline |-> us.projection_timeline],
             trend_based |->
                [method |-> tp.method,
                 total_loss_ha |-> trend_total_loss,
                 total_co2_tons |-> MgToTons(trend_co2_impact),
                 avg_annual_loss_ha |-> tp.annual_loss_ha,
                 timeline |-> tt]],
         comparison |->
            [user_vs_trend_multiplier |-> Multiplier(user_total_loss, trend_total_loss),
             user_vs_recent_avg_multiplier |-> Multiplier(user_avg, recent_avg),
             scenario_realism |-> scenario_realism(lf)],
         combined_timeseries |-> combined_timeseries(h, us.projection_timeline),
         summary |->
            [historical_records |-> Len(h),
             historical_total_loss_ha |-> historical_total]]

\* a float of the result that a division by zero would have produced
DivisionFault(b) ==
    \/ IsNaR(b.projections.user_scenario.total_co2_tons)
    \/ IsNaR(b.projections.trend_based.total_co2_tons)
    \/ IsNaR(b.projections.user_scenario.avg_annual_loss_ha)
    \/ \E m \in {b.comparison.user_vs_trend_multiplier,
                 b.comparison.user_vs_recent_avg_multiplier} :
          m.t = "num" /\ IsNaR(m.v)

Assemble ==
    /\ Running("assemble")
    /\ UNCHANGED outer
    /\ LET b == SimulationResult(country_iso, loss_fraction, target_year, forest_area,
                                 emissions, historical, user_scenario, trend_projection,
                                 trend_timeline)
       IN  IF DivisionFault(b)
           THEN /\ response' = Fault("ZeroDivisionError", "simulate_forest_loss_dual")
                /\ UNCHANGED pc
           ELSE /\ response' = [kind |-> "ok", body |-> b]
                /\ pc' = StepAfter("assemble")
    /\ UNCHANGED <<country_iso, loss_fraction, target_year, forest_area, emissions,
                   historical, user_scenario, trend_projection, trend_timeline>>

Next ==
    \/ GetGeostore
    \/ GetForestArea
    \/ GetCarbonEmissions
    \/ GetHistoricalLoss
    \/ CreateUserScenario
    \/ CalculateTrend
    \/ CreateTrendTimeline
    \/ Assemble

Spec == Init /\ [][Next]_vars

----------------------------------------------------------------------------
(* The projection functions called on their own *)

InitCall ==
    /\ pc = "call"
    /\ emissions = Zero
    /\ target_year \in TargetYears
    /\ forest_area \in ForestAreas
    /\ InitLocals
    /\ NoRoute
    /\ NoRetry
    /\ NoPair

InitTrend ==
    /\ InitCall
    /\ country_iso = "XXX"
    /\ historical \in Histories
    /\ loss_fraction \in {<<1, 100>>}

CallTrend ==
    /\ pc = "call"
    /\ UNCHANGED outer
    /\ trend_projection' = calculate_trend_projection(historical, target_year, forest_area)
    /\ pc' = "called"
    /\ UNCHANGED <<country_iso, loss_fraction, target_year, forest_area, emissions,
                   historical, user_scenario, trend_timeline, response>>

NextTrend == CallTrend

SpecTrend == InitTrend /\ [][NextTrend]_vars

InitScenario ==
    /\ InitCall
    /\ country_iso \in Countries
    /\ historical \in Histories \cup SignedHistories
    /\ loss_fraction \in Fractions

CallScenario ==
    /\ pc = "call"
    /\ UNCHANGED outer
    /\ user_scenario' = create_user_scenario_projection(historical, target_year,
                            loss_fraction, forest_area, country_iso)
    /\ pc' = "called"
    /\ UNCHANGED <<country_iso, loss_fraction, target_year, forest_area, emissions,
                   historical, trend_projection, trend_timeline, response>>

NextScenario == CallScenario

SpecScenario == InitScenario /\ [][NextScenario]_vars

----------------------------------------------------------------------------
(* Properties of create_user_scenario_projection (SpecScenario) *)

Accepted == pc = "called" /\ user_scenario.exc = "none"

HighMagnitude == RGt(loss_fraction, <<1, 50>>)

Timeline == user_scenario.projection_timeline

TargetLoss == RMul(forest_area, loss_fraction)

\* sum of the last three historical losses; its sign is the sign of recent_avg
RecentSum == RSum(Losses(LastN(historical, 3)))

\* C1: under the high-magnitude policy the timeline sums to
\* total_target_loss_ha = forest_area * loss_fraction, the final year being
\* total_target_loss_ha minus the sum of the earlier projected years.
C1_HighMagnitudeSumsToTarget ==
    (Accepted /\ HighMagnitude) =>
        /\ user_scenario.total_target_loss_ha = TargetLoss
        /\ RSum(Losses(Timeline)) = TargetLoss
        /\ Timeline[Len(Timeline)].loss_ha =
              RSub(TargetLoss, RSum(Losses(SubSeq(Timeline, 1, Len(Timeline) - 1))))

\* C4: under the low-magnitude policy every projected year from
\* last_observed_year+1 through target_year gets total_target_loss_ha /
\* years_to_target, so the timeline sums to total_target_loss_ha.
C4_LowMagnitudeEqualShares ==
    (Accepted /\ ~HighMagnitude) =>
        /\ user_scenario.total_target_loss_ha = TargetLoss
        /\ \A j \in 1..Len(Timeline) :
              /\ RMul(Timeline[j].loss_ha, R(target_year - MaxYear(historical))) = TargetLoss
              /\ Timeline[j].type = "projected_user_scenario"
        /\ {Timeline[j].year : j \in 1..Len(Timeline)} =
              (MaxYear(historical) + 1)..target_year
        /\ RSum(Losses(Timeline)) = TargetLoss

C4_Witness ==
    /\ Accepted /\ ~HighMagnitude
    /\ Len(Timeline) >= 2
    /\ RGt(Timeline[1].loss_ha, Zero)

\* C5: an accepted request has years_to_target = target_year -
\* last_observed_year > 0 and a timeline of exactly years_to_target points
\* for the years last_observed_year+1, ..., target_year, strictly increasing.
C5_TimelineYears ==
    Accepted =>
        /\ user_scenario.years_to_target = target_year - MaxYear(historical)
        /\ user_scenario.years_to_target > 0
        /\ Len(Timeline) = user_scenario.years_to_target
        /\ \A j \in 1..Len(Timeline) : Timeline[j].year = MaxYear(historical) + j
        /\ \A j \in 1..(Len(Timeline) - 1) : Timeline[j].year < Timeline[j + 1].year

C5_Witness ==
    /\ Accepted /\ HighMagnitude
    /\ Len(Timeline) = 3
    /\ Timeline[3].year = target_year

\* C8: under the high-magnitude policy with recent_avg >= 0, loss_ha never
\* decreases from one projected year to the next, final year included.
C8_HighMagnitudeNonDecreasing ==
    (Accepted /\ HighMagnitude /\ RGe(RecentSum, Zero)) =>
        \A j \in 1..(Len(Timeline) - 1) :
            RLe(Timeline[j].loss_ha, Timeline[j + 1].loss_ha)

\* the final year was topped up above the acceleration formula's 4 * recent_avg
C8_Witness ==
    /\ Accepted /\ HighMagnitude
    /\ RGt(RecentSum, Zero)
    /\ Len(Timeline) = 3
    /\ RLt(Timeline[1].loss_ha, Timeline[2].loss_ha)
    /\ RGt(Timeline[3].loss_ha, RMul(R(4), RDiv(RecentSum, R(3))))

----------------------------------------------------------------------------
(* Properties of calculate_trend_projection (SpecTrend) *)

Estimated == pc = "called" /\ trend_projection.exc = "none"

\* at least three records, a common year step >= 1 and a common loss step
EquallySpacedLinear(h) ==
    /\ Len(h) >= 3
    /\ h[2].year - h[1].year >= 1
    /\ \A j \in 1..(Len(h) - 1) :
          /\ h[j + 1].year - h[j].year = h[2].year - h[1].year
          /\ RSub(h[j + 1].loss_ha, h[j].loss_ha) = RSub(h[2].loss_ha, h[1].loss_ha)

\* the analytic slope a and the value a * ty + c of the line through h
AnalyticSlope(h) == RDiv(RSub(h[2].loss_ha, h[1].loss_ha), R(h[2].year - h[1].year))

AnalyticValue(h, ty) ==
    RAdd(h[1].loss_ha, RMul(AnalyticSlope(h), R(ty - h[1].year)))

\* C2: for every history with at least one record and forest_area >= 0 the
\* returned annual_loss_ha lies in [0, forest_area * 0.05], whatever the method.
C2_AnnualLossBounded ==
    Estimated =>
        /\ RLe(Zero, trend_projection.annual_loss_ha)
        /\ RLe(trend_projection.annual_loss_ha, RMul(forest_area, <<1, 20>>))

\* C9 (as claimed): on an exactly linear, equally spaced history of >= 3
\* records the method is linear_trend, trend_slope = a and annual_loss_ha =
\* a * target_year + c for every target_year and forest_area.
C9_LinearHistoryUnclamped ==
    (Estimated /\ EquallySpacedLinear(historical)) =>
        /\ trend_projection.method = "linear_trend"
        /\ trend_projection.trend_slope = AnalyticSlope(historical)
        /\ trend_projection.annual_loss_ha = AnalyticValue(historical, target_year)

\* C9 (amended): on such a history the method is linear_trend, trend_slope = a
\* and annual_loss_ha is a * target_year + c limited to [0, forest_area * 0.05].
C9_LinearHistoryClamped ==
    (Estimated /\ EquallySpacedLinear(historical)) =>
        LET e == AnalyticValue(historical, target_year)
            cap == RMul(forest_area, <<1, 20>>)
        IN  /\ trend_projection.method = "linear_trend"
            /\ trend_projection.trend_slope = AnalyticSlope(historical)
            /\ trend_projection.annual_loss_ha =
                  (IF RLt(e, Zero) \/ RLt(cap, Zero) THEN Zero
                   ELSE IF RLt(cap, e) THEN cap ELSE e)

\* a rising line extrapolated below the cap
C9_Witness ==
    /\ Estimated /\ EquallySpacedLinear(historical)
    /\ Len(historical) = 5
    /\ RGt(AnalyticSlope(historical), Zero)
    /\ target_year > MaxYear(historical)
    /\ trend_projection.annual_loss_ha = AnalyticValue(historical, target_year)
    /\ RGt(trend_projection.annual_loss_ha, historical[5].loss_ha)

----------------------------------------------------------------------------
(* Properties of simulate_forest_loss_dual (Spec) *)

\* the history fetch returned and its result is in `historical`
HistoryFetched ==
    pc \in {"create_user_scenario_projection", "calculate_trend_projection",
            "create_trend_projection_timeline", "assemble", "returned"}

\* the history fetch was reached and the simulation is over
Ended ==
    /\ response.kind # "none"
    /\ pc \notin {"get_geostore", "get_forest_area", "get_carbon_emissions"}

\* create_user_scenario_projection has run on the fetched history
ScenarioDecided == HistoryFetched /\ ~Running("create_user_scenario_projection")

InvalidTarget == response.kind = "http" /\ response.status_code = 400

\* the fetch itself failed: there is no historical sequence, empty or not
RequestFailed == response.kind = "fault" /\ response.exc = "RequestException"

NoProjection ==
    /\ user_scenario = Unset
    /\ trend_projection = Unset
    /\ trend_timeline = <<>>

\* C3: a target_year not after the last observed year is rejected with HTTP
\* 400 and nothing is returned; a later target_year never gets this error.
C3_InvalidTargetRejected ==
    /\ ScenarioDecided =>
          ((target_year <= MaxYear(historical)) <=> InvalidTarget)
    /\ InvalidTarget =>
          /\ HistoryFetched
          /\ pc = "create_user_scenario_projection"
          /\ NoProjection

\* target_year equal to the last observed year
C3_Witness ==
    /\ InvalidTarget
    /\ Len(historical) >= 3
    /\ target_year = MaxYear(historical)

Comparison == response.body.comparison

IsMultiplier(m) == m.t = "infinite" \/ (m.t = "num" /\ ~IsNaR(m.v))

\* C7: with at least one record and a valid target year, a forest area of 0
\* or baseline emissions of 0 never makes the simulation fail; the result is
\* complete, its CO2 figures are 0 and each multiplier is a number or
\* "infinite".
C7_ZeroBaselinesDegrade ==
    (/\ HistoryFetched
     /\ target_year > MaxYear(historical)
     /\ (forest_area = Zero \/ emissions = Zero)) =>
        /\ response.kind \in {"none", "ok"}
        /\ pc = "returned" =>
              /\ response.kind = "ok"
              /\ response.body.projections.user_scenario.total_co2_tons = Zero
              /\ response.body.projections.trend_based.total_co2_tons = Zero
              /\ IsMultiplier(Comparison.user_vs_trend_multiplier)
              /\ IsMultiplier(Comparison.user_vs_recent_avg_multiplier)
              /\ Len(response.body.combined_timeseries) =
                    Len(historical) + (target_year - MaxYear(historical))

\* no forest but emissions on record, and a trend total of 0
C7_Witness ==
    /\ pc = "returned"
    /\ forest_area = Zero
    /\ RGt(emissions, Zero)
    /\ Comparison.user_vs_trend_multiplier.t = "infinite"
    /\ Comparison.user_vs_recent_avg_multiplier.t = "num"

UserTotal == response.body.projections.user_scenario.total_loss_ha

TrendTotal == response.body.projections.trend_based.total_loss_ha

\* m is a whole number of tenths no further than 0.05 from x
RoundedToTenth(m, x) ==
    /\ Norm(10 * m[1], m[2])[2] = 1
    /\ RLe(RSub(m, x), <<1, 20>>)
    /\ RLe(RSub(x, m), <<1, 20>>)

C10_NegativeTrendWitness ==
    /\ pc = "returned"
    /\ RLt(TrendTotal, Zero)
    /\ Comparison.user_vs_trend_multiplier.t = "infinite"

----------------------------------------------------------------------------
(* Properties of the result's comparison block and merged series (Spec) *)

\* C11: scenario_realism is decided by loss_fraction alone: "hypothetical"
\* above 0.05, "aggressive" above 0.02 and up to 0.05, "plausible" up to 0.02,
\* whatever the country, history, forest area, emissions and target year.
C11_RealismFromFractionOnly ==
    pc = "returned" =>
        /\ (Comparison.scenario_realism = "hypothetical") <=>
              (loss_fraction[1] * 20 > loss_fraction[2])
        /\ (Comparison.scenario_realism = "aggressive") <=>
              (/\ loss_fraction[1] * 50 > loss_fraction[2]
               /\ loss_fraction[1] * 20 <= loss_fraction[2])
        /\ (Comparison.scenario_realism = "plausible") <=>
              (loss_fraction[1] * 50 <= loss_fraction[2])

\* exactly 5% on a history and country that differ from the defaults
C11_Witness ==
    /\ pc = "returned"
    /\ loss_fraction = <<1, 20>>
    /\ Comparison.scenario_realism = "aggressive"
    /\ country_iso = "BRA"
    /\ Len(historical) = 5

\* C13: combined_timeseries is every historical record in input order tagged
\* observed, followed by every user-scenario point tagged
\* projected_user_scenario: len(historical) + years_to_target points, none of
\* them tagged projected_trend_based.
C13_CombinedTimeseries ==
    pc = "returned" =>
        LET cs == response.body.combined_timeseries
            n == Len(historical)
            ut == user_scenario.projection_timeline
        IN  /\ Len(cs) = n + user_scenario.years_to_target
            /\ \A j \in 1..n :
                  cs[j] = [year |-> historical[j].year,
                           loss_ha |-> historical[j].loss_ha,
                           type |-> "observed"]
            /\ \A j \in 1..Len(ut) :
                  /\ cs[n + j] = ut[j]
                  /\ cs[n + j].type = "projected_user_scenario"
            /\ \A j \in 1..Len(cs) : cs[j].type # "projected_trend_based"
            /\ \A j \in 1..Len(response.body.projections.trend_based.timeline) :
                  response.body.projections.trend_based.timeline[j].type =
                      "projected_trend_based"

\* five observed records and three projected years
C13_Witness ==
    /\ pc = "returned"
    /\ Len(historical) = 5
    /\ Len(response.body.combined_timeseries) = 8
    /\ Len(response.body.projections.trend_based.timeline) = 3

----------------------------------------------------------------------------
(* Independence of create_user_scenario_projection from the country (SpecScenario) *)

\* the country codes of the fixed table
TableCountries == {"BRA", "IDN", "PAK", "IND", "GBR", "USA"}

\* C12: calls that differ only in country_iso return the same
\* total_target_loss_ha, years_to_target and projection_timeline; only
\* parameters_used depends on the country, and it is {0.2, medium} for every
\* country code outside the fixed table.
C12_CountryOnlySelectsParameters ==
    pc = "called" =>
        /\ \A c \in Countries \cup TableCountries :
              LET other == create_user_scenario_projection(historical, target_year,
                               loss_fraction, forest_area, c)
              IN  /\ other.exc = user_scenario.exc
                  /\ other.exc = "none" =>
                        /\ other.total_target_loss_ha = user_scenario.total_target_loss_ha
                        /\ other.years_to_target = user_scenario.years_to_target
                        /\ other.projection_timeline = user_scenario.projection_timeline
        /\ (user_scenario.exc = "none" /\ country_iso \notin TableCountries) =>
              user_scenario.parameters_used =
                  [max_growth_rate |-> <<1, 5>>, volatility |-> "medium"]

\* an unlisted country with the default parameters, which a listed one does not get
C12_Witness ==
    /\ Accepted /\ HighMagnitude
    /\ country_iso = "XXX"
    /\ user_scenario.parameters_used.volatility = "medium"
    /\ create_user_scenario_projection(historical, target_year, loss_fraction,
                                       forest_area, "BRA").parameters_used
          # user_scenario.parameters_used
    /\ Len(Timeline) = 3

----------------------------------------------------------------------------
(* Method selection of calculate_trend_projection (SpecTrend) *)

\* the window the claim names for a history of at least three records
ClaimedWindow(h) == IF Len(h) >= 5 THEN LastN(h, 5) ELSE LastN(h, 3)

SameYears(w) == \A j \in 1..Len(w) : w[j].year = w[1].year

\* years counted from the first year of the window
Offsets(w) == [j \in 1..Len(w) |-> w[j].year - w[1].year]

\* the intercept at the window's first year that goes with slope m
InterceptAt(w, m) ==
    RDiv(RSub(RSum(Losses(w)), RMul(m, R(ISum(Offsets(w))))), R(Len(w)))

\* m is the least-squares slope of w: the residuals are orthogonal to the years
LeastSquaresSlope(w, m) ==
    RSum([j \in 1..Len(w) |->
            RMul(R(Offsets(w)[j]),
                 RSub(w[j].loss_ha,
                      RAdd(RMul(m, R(Offsets(w)[j])), InterceptAt(w, m))))]) = Zero

Clamped(x, cap) ==
    IF RLt(x, Zero) \/ RLt(cap, Zero) THEN Zero ELSE IF RLt(cap, x) THEN cap ELSE x

\* C17: the method follows from the number of records: fewer than 3 give
\* simple_average with the mean of all records; 3 or 4 records regress over
\* the last 3 and 5 or more over the last 5; a window whose years are not all
\* equal gives linear_trend with slope * target_year + intercept limited to
\* [0, forest_area * 0.05].
C17_MethodByRecordCount ==
    Estimated =>
        LET n == Len(historical)
            w == ClaimedWindow(historical)
            m == trend_projection.trend_slope
        IN  /\ n < 3 =>
                  /\ trend_projection.method = "simple_average"
                  /\ RMul(trend_projection.annual_loss_ha, R(n)) = RSum(Losses(historical))
            /\ (n >= 3 /\ ~SameYears(w)) =>
                  /\ trend_projection.method = "linear_trend"
                  /\ LeastSquaresSlope(w, m)
                  /\ trend_projection.annual_loss_ha =
                        Clamped(RAdd(RMul(m, R(target_year - w[1].year)), InterceptAt(w, m)),
                                RMul(forest_area, <<1, 20>>))
            /\ n >= 3 => trend_projection.method # "simple_average"

\* six records whose first one lies off the line of the last five
C17_Witness ==
    /\ Estimated
    /\ Len(historical) = 6
    /\ trend_projection.method = "linear_trend"
    /\ EquallySpacedLinear(LastN(historical, 5))
    /\ ~EquallySpacedLinear(historical)
    /\ RGt(trend_projection.trend_slope, Zero)
    /\ RGt(trend_projection.annual_loss_ha, Zero)

\* a regression over the last five of five records that differs from one over the last three
C17_FiveRecordWitness ==
    /\ Estimated
    /\ Len(historical) = 5
    /\ trend_projection.method = "linear_trend"
    /\ ~LeastSquaresSlope(LastN(historical, 3), trend_projection.trend_slope)

\* C18: a history with at least one record never makes
\* calculate_trend_projection raise; a window whose years are all equal (zero
\* regression denominator) gives recent_average with the mean of the window.
C18_TrendNeverRaises ==
    (pc = "called" /\ Len(historical) >= 1) =>
        /\ trend_projection.exc = "none"
        /\ trend_projection.method \in {"simple_average", "linear_trend", "recent_average"}
        /\ ~IsNaR(trend_projection.annual_loss_ha)
        /\ (Len(historical) >= 3 /\ SameYears(ClaimedWindow(historical))) =>
              /\ trend_projection.method = "recent_average"
              /\ RMul(trend_projection.annual_loss_ha, R(Len(ClaimedWindow(historical)))) =
                    RSum(Losses(ClaimedWindow(historical)))

\* five records of one year with different losses
C18_Witness ==
    /\ pc = "called"
    /\ Len(historical) = 5
    /\ SameYears(historical)
    /\ historical[1].loss_ha # historical[5].loss_ha
    /\ trend_projection.method = "recent_average"
    /\ RGt(trend_projection.annual_loss_ha, Zero)

----------------------------------------------------------------------------
(* Final-year reconciliation of the high-magnitude policy (SpecScenario) *)

EarlierYears == SubSeq(Timeline, 1, Len(Timeline) - 1)

FinalYear == Timeline[Len(Timeline)]

\* valid inputs whose earlier projected years already exceed the target
Overshoot ==
    /\ Accepted
    /\ HighMagnitude
    /\ RGe(RecentSum, Zero)
    /\ RGt(RSum(Losses(EarlierYears)), TargetLoss)

----------------------------------------------------------------------------
(* Order of the steps of simulate_forest_loss_dual (Spec) *)

TrendEstimated == trend_projection # Unset

ScenarioDistributed == user_scenario # Unset

\* C20 as stated: the trend estimate is computed before the scenario
\* distribution, and so before an InvalidTarget rejection can occur.
C20_TrendBeforeScenario ==
    /\ ScenarioDistributed => TrendEstimated
    /\ InvalidTarget => TrendEstimated

\* C20 as the code has it: the history is fetched and checked to be non-empty,
\* then the scenario distribution runs, then the trend estimate and its
\* timeline, then the merge and the aggregation; an InvalidTarget rejection
\* occurs before any trend estimate is computed.
C20_ScenarioBeforeTrend ==
    /\ (ScenarioDistributed \/ InvalidTarget) => (HistoryFetched /\ Len(historical) >= 1)
    /\ TrendEstimated => ScenarioDistributed
    /\ InvalidTarget => ~TrendEstimated
    /\ pc \in {"create_trend_projection_timeline", "assemble", "returned"} => TrendEstimated
    /\ trend_timeline # <<>> => TrendEstimated
    /\ response.kind = "ok" <=> pc = "returned"
    /\ pc = "returned" => (ScenarioDistributed /\ TrendEstimated)

\* the scenario is distributed and the trend estimate is still to be made
C20_Witness ==
    /\ Running("calculate_trend_projection")
    /\ ScenarioDistributed
    /\ ~TrendEstimated
    /\ Len(historical) >= 3

----------------------------------------------------------------------------
(* simulate_with_retry (backend/app/routers/nl.py) *)

\* what one call of call_enhanced_simulation ends with: a result, an
\* exception of the requests library, an HTTPException of the simulation, or
\* any other exception
AttemptOutcomes ==
    {[exc |-> "none", status_code |-> 200],
     [exc |-> "Timeout", status_code |-> 0],
     [exc |-> "RequestException", status_code |-> 0],
     [exc |-> "ValueError", status_code |-> 0],
     [exc |-> "ZeroDivisionError", status_code |-> 0]}
    \cup {[exc |-> "HTTPException", status_code |-> c] : c \in {400, 404, 500}}

\* the except clause that catches e, in the order the clauses are written
ExceptClauseNoReraise(e) ==
    CASE e.exc = "Timeout" -> "Timeout"
      [] e.exc = "RequestException" -> "RequestException"
      [] OTHER -> "Exception"

ExceptClause(e) ==
    CASE e.exc = "Timeout" -> "Timeout"
      [] e.exc = "RequestException" -> "RequestException"
      [] e.exc = "HTTPException" -> "HTTPException"
      [] OTHER -> "Exception"

RECURSIVE Pow2(_)
Pow2(k) == IF k = 0 THEN 1 ELSE 2 * Pow2(k - 1)

\* time.sleep(...) and the next iteration of the loop
SleepAndRetry(r, o, wait_time) ==
    [r EXCEPT !.outcomes = Append(@, o), !.sleeps = Append(@, wait_time),
              !.attempt = @ + 1]

RaiseFromRetry(r, o, code) ==
    [r EXCEPT !.outcomes = Append(@, o), !.status = "raised", !.raised = code]

\* attempt < max_retries - 1
MoreAttemptsOneTooMany(r) == r.attempt < r.max_retries

MoreAttempts(r) == r.attempt < r.max_retries - 1

\* one iteration of the loop body with outcome o of the call
OnOutcome(r, o) ==
    LET more == MoreAttempts(r)
        clause == ExceptClause(o)
    IN  IF o.exc = "none"
        THEN [r EXCEPT !.outcomes = Append(@, o), !.status = "returned"]
        ELSE CASE clause = "Timeout" ->
                    IF more THEN SleepAndRetry(r, o, Pow2(r.attempt))
                    ELSE RaiseFromRetry(r, o, 408)
               [] clause = "RequestException" ->
                    IF more THEN SleepAndRetry(r, o, 2) ELSE RaiseFromRetry(r, o, 500)
               [] clause = "HTTPException" -> RaiseFromRetry(r, o, o.status_code)
               [] clause = "Exception" ->
                    IF more THEN SleepAndRetry(r, o, 1) ELSE RaiseFromRetry(r, o, 500)

InitRetry ==
    /\ pc = "simulate_with_retry"
    /\ country_iso = "BRA"
    /\ loss_fraction = <<1, 10>>
    /\ target_year = 2024
    /\ forest_area = Zero
    /\ emissions = Zero
    /\ historical = <<>>
    /\ InitLocals
    /\ NoRoute
    /\ NoPair
    /\ retry \in {[status |-> "running", max_retries |-> m, attempt |-> 0,
                   outcomes |-> <<>>, sleeps |-> <<>>, raised |-> 0] : m \in 0..MaxRetries}

\* for attempt in range(max_retries): one iteration
Attempt ==
    /\ retry.status = "running"
    /\ retry.attempt < retry.max_retries
    /\ \E o \in AttemptOutcomes : retry' = OnOutcome(retry, o)
    /\ UNCHANGED <<pc, country_iso, loss_fraction, target_year, forest_area, emissions,
                   historical, user_scenario, trend_projection, trend_timeline, response,
                   req, calls, frames>>

\* the loop ends without an iteration left: the function returns None
LoopExhausted ==
    /\ retry.status = "running"
    /\ retry.attempt >= retry.max_retries
    /\ retry' = [retry EXCEPT !.status = "returned_none"]
    /\ UNCHANGED <<pc, country_iso, loss_fraction, target_year, forest_area, emissions,
                   historical, user_scenario, trend_projection, trend_timeline, response,
                   req, calls, frames>>

NextRetry == Attempt \/ LoopExhausted

SpecRetry == InitRetry /\ [][NextRetry]_vars

\* C16: an HTTPException raised by an attempt of simulate_with_retry is
\* propagated at once with its status code unchanged: it is the last
\* attempt, no sleep follows it, and the function ends raising that code.
C16_HTTPExceptionNotRetried ==
    retry.status # "none" =>
        \A i \in 1..Len(retry.outcomes) :
            retry.outcomes[i].exc = "HTTPException" =>
                /\ i = Len(retry.outcomes)
                /\ retry.status = "raised"
                /\ retry.raised = retry.outcomes[i].status_code
                /\ Len(retry.sleeps) = i - 1
                /\ retry.attempt = i - 1

\* an InvalidTarget rejection on the second of three attempts
C16_Witness ==
    /\ retry.status = "raised"
    /\ retry.max_retries = 3
    /\ Len(retry.outcomes) = 2
    /\ retry.outcomes[1].exc = "Timeout"
    /\ retry.outcomes[2] = [exc |-> "HTTPException", status_code |-> 400]
    /\ retry.raised = 400

----------------------------------------------------------------------------
(* The routes that call simulate_forest_loss_dual: POST /simulate/          *)
(* (run_simulation) and the natural-language route (nl_query_handler)       *)

\* forest_loss_percent values a client can send
Percents == {<<-5, 1>>, Zero, <<10, 1>>, <<150, 1>>}

\* COUNTRY_NAME_TO_ISO3.get(...) finds the country ("table"), or it does not
\* and the input has three characters ("code3"), or neither ("unknown")
SimulateRequests ==
    {[route |-> "simulate", resolved |-> r, country |-> "BRA",
      forest_loss_percent |-> p, target_year |-> t] :
        r \in {"table", "code3", "unknown"}, p \in Percents, t \in {2022, 2024}}

\* parameter names of simulate_forest_loss_dual
Parameters == {"country_iso", "loss_fraction", "target_year"}

\* keyword arguments of the call in nl_query_handler
NlKeywords == {"country_iso", "percent_loss", "target_year"}

\* a call with keyword arguments binds iff every keyword is a parameter;
\* otherwise Python raises TypeError
CallBinds(keywords) == keywords \subseteq Parameters

\* number of entries of model_names_to_try
ModelCount == 6

\* one model's answer: no usable JSON object ("fail") or a parsed dict
ParsedDicts ==
    {[t |-> "dict", has_keys |-> FALSE, country_ok |-> TRUE, numeric |-> TRUE,
      forest_loss_percent |-> <<10, 1>>, years |-> 5],
     [t |-> "dict", has_keys |-> TRUE, country_ok |-> FALSE, numeric |-> TRUE,
      forest_loss_percent |-> <<10, 1>>, years |-> 5],
     [t |-> "dict", has_keys |-> TRUE, country_ok |-> TRUE, numeric |-> FALSE,
      forest_loss_percent |-> <<10, 1>>, years |-> 5]}
    \cup {[t |-> "dict", has_keys |-> TRUE, country_ok |-> TRUE, numeric |-> TRUE,
           forest_loss_percent |-> p, years |-> y] :
             p \in Percents \cup {<<100, 1>>}, y \in {0, 5, 51}}

FailedModels(k) == [j \in 1..k |-> [t |-> "fail"]]

ModelAnswers ==
    {FailedModels(k) \o <<d>> : k \in 0..1, d \in ParsedDicts}
    \cup {FailedModels(ModelCount)}

NlRequests ==
    {[route |-> "nl", outs |-> o, country |-> "BRA", current_year |-> 2022] :
        o \in ModelAnswers}

NlError(e) == [status |-> "error", error |-> e]

\* the body of the loop for a model that answered with a dict
ValidateParsed(parsed, model_used, current_year) ==
    IF ~parsed.has_keys THEN NlError("Missing required keys")
    ELSE IF ~parsed.country_ok THEN NlError("Country resolution failed")
    ELSE IF ~parsed.numeric THEN NlError("Numeric validation failed")
    ELSE IF ~(RLt(Zero, parsed.forest_loss_percent)
              /\ RLe(parsed.forest_loss_percent, <<100, 1>>))
         THEN NlError("forest_loss_percent must be between 0 and 100")
    ELSE IF ~(1 <= parsed.years /\ parsed.years <= 50)
         THEN NlError("years must be between 1 and 50")
    ELSE [status |-> "success", model_used |-> model_used,
          structured_scenario |->
             [forest_loss_percent |-> parsed.forest_loss_percent,
              target_year |-> current_year + parsed.years,
              years_from_now |-> parsed.years]]

\* the iteration ends in a `continue`: the call raised, the output was empty,
\* the JSON did not parse or was not an object
ModelFailedOrInvalid(answer) ==
    answer.t = "fail" \/ ValidateParsed(answer, 1, 0).status = "error"

ModelFailed(answer) == answer.t = "fail"

\* for model_name in model_names_to_try
RECURSIVE TryModels(_, _, _)
TryModels(outs, j, current_year) ==
    IF j > Len(outs) \/ j > ModelCount THEN NlError("All Gemini models failed")
    ELSE IF ModelFailed(outs[j]) THEN TryModels(outs, j + 1, current_year)
    ELSE ValidateParsed(outs[j], j, current_year)

parse_nl_query(outs, current_year) == TryModels(outs, 1, current_year)

NlResponse(e, who) == [kind |-> "error", error |-> e, raised_by |-> who]

InitRoute ==
    /\ pc = "request"
    /\ req \in SimulateRequests \cup NlRequests
    /\ country_iso = ""
    /\ loss_fraction = Zero
    /\ target_year = 0
    /\ forest_area = Zero
    /\ emissions = Zero
    /\ historical = <<>>
    /\ InitLocals
    /\ NoRetry
    /\ NoPair

\* POST /simulate/ up to the call of simulate_forest_loss_dual
RunSimulation ==
    /\ Running("request")
    /\ req.route = "simulate"
    /\ IF req.resolved = "unknown"
       THEN /\ response' = HTTPError(400, "run_simulation")
            /\ UNCHANGED <<pc, country_iso, loss_fraction, target_year>>
       ELSE /\ country_iso' = req.country
            /\ loss_fraction' = RDiv(req.forest_loss_percent, R(100))
            /\ target_year' = req.target_year
            /\ pc' = "get_geostore"
            /\ UNCHANGED response
    /\ UNCHANGED <<forest_area, emissions, historical, user_scenario, trend_projection,
                   trend_timeline, req, retry, calls, frames>>

\* POST /nl/ up to the call of simulate_forest_loss_dual
NlQueryHandler ==
    /\ Running("request")
    /\ req.route = "nl"
    /\ LET parsed == parse_nl_query(req.outs, req.current_year)
       IN  IF parsed.status # "success"
           THEN /\ response' = NlResponse(parsed.error, "parse_nl_query")
                /\ UNCHANGED <<pc, country_iso, loss_fraction, target_year>>
           ELSE IF CallBinds(NlKeywords)
           THEN /\ country_iso' = req.country
                /\ loss_fraction' =
                      RDiv(parsed.structured_scenario.forest_loss_percent, R(100))
                /\ target_year' = parsed.structured_scenario.target_year
                /\ pc' = "get_geostore"
                /\ UNCHANGED response
           ELSE /\ response' = NlResponse("Projection failed", "nl_query_handler")
                /\ UNCHANGED <<pc, country_iso, loss_fraction, target_year>>
    /\ UNCHANGED <<forest_area, emissions, historical, user_scenario, trend_projection,
                   trend_timeline, req, retry, calls, frames>>

\* the except clauses around the call: run_simulation re-raises an
\* HTTPException and turns any other exception into a 500;
\* nl_query_handler turns every exception into an error answer
RouteExcept ==
    /\ \/ req.route = "simulate" /\ response.kind = "fault"
       \/ req.route = "nl" /\ response.kind \in {"http", "fault"}
    /\ response' = IF req.route = "simulate"
                   THEN HTTPError(500, "run_simulation")
                   ELSE NlResponse("Projection failed", "nl_query_handler")
    /\ UNCHANGED <<pc, country_iso, loss_fraction, target_year, forest_area, emissions,
                   historical, user_scenario, trend_projection, trend_timeline,
                   req, retry, calls, frames>>

NextRoute ==
    \/ RunSimulation
    \/ NlQueryHandler
    \/ RouteExcept
    \/ Next

SpecRoute == InitRoute /\ [][NextRoute]_vars

\* simulate_forest_loss_dual has been called
CoreEntered == pc # "request"

RequestedPercent ==
    IF req.route = "simulate" THEN req.forest_loss_percent
    ELSE LET given == {j \in 1..Len(req.outs) : req.outs[j].t = "dict"}
         IN  IF given = {} THEN One
             ELSE req.outs[CHOOSE j \in given : TRUE].forest_loss_percent

\* C15: every call of simulate_forest_loss_dual made by a route passes
\* 0 < loss_fraction <= 1, and a request whose forest_loss_percent is outside
\* (0, 100] never reaches the core.
C15_LossFractionValidated ==
    /\ CoreEntered => (RGt(loss_fraction, Zero) /\ RLe(loss_fraction, One))
    /\ ~(RLt(Zero, RequestedPercent) /\ RLe(RequestedPercent, <<100, 1>>)) => ~CoreEntered

----------------------------------------------------------------------------
(* Two invocations of the projection core, interleaved step by step *)

Invocations == {1, 2}

\* the frame that holds the local variables of invocation p: every call of a
\* Python function has a frame of its own
ScopeShared(p) == 1

ScopeOf(p) == p

\* the value parameters of one invocation
PairArgs ==
    {[country_iso |-> "BRA", loss_fraction |-> lf, target_year |-> t,
      forest_area |-> R(10000), emissions |-> R(50000), historical |-> h] :
        lf \in {<<1, 100>>, <<1, 10>>}, t \in {2022, 2024},
        h \in {g \in LinearHistories : Len(g) = 3}}

EmptyFrame == [user_scenario |-> Unset, trend_projection |-> Unset, trend_timeline |-> <<>>]

Raised(r, who) ==
    IF r.exc = "HTTPException" THEN HTTPError(r.status_code, who) ELSE Fault(r.exc, who)

\* the projection core run from its first statement to its last on arguments a
RunAlone(a) ==
    LET us == create_user_scenario_projection(a.historical, a.target_year,
                  a.loss_fraction, a.forest_area, a.country_iso)
    IN  IF us.exc # "none" THEN Raised(us, "create_user_scenario_projection")
        ELSE LET tp == calculate_trend_projection(a.historical, a.target_year,
                                                  a.forest_area)
             IN  IF tp.exc # "none" THEN Raised(tp, "calculate_trend_projection")
                 ELSE LET tt == create_trend_projection_timeline(tp, a.historical,
                                                                 a.target_year)
                          b == SimulationResult(a.country_iso, a.loss_fraction,
                                   a.target_year, a.forest_area, a.emissions,
                                   a.historical, us, tp, tt)
                      IN  IF DivisionFault(b)
                          THEN Fault("ZeroDivisionError", "simulate_forest_loss_dual")
                          ELSE [kind |-> "ok", body |-> b]

InitPair ==
    /\ pc = "invocations"
    /\ country_iso = ""
    /\ loss_fraction = Zero
    /\ target_year = 0
    /\ forest_area = Zero
    /\ emissions = Zero
    /\ historical = <<>>
    /\ InitLocals
    /\ NoRoute
    /\ NoRetry
    /\ calls \in [Invocations ->
                    {[args |-> a, at |-> "create_user_scenario_projection",
                      result |-> NoResponse] : a \in PairArgs}]
    /\ frames = [f \in Invocations |-> EmptyFrame]

\* the next statement of invocation p
Invoke(p) ==
    /\ calls[p].result.kind = "none"
    /\ LET a == calls[p].args
           at == calls[p].at
           f == frames[ScopeOf(p)]
       IN  CASE at = "create_user_scenario_projection" ->
                  LET r == create_user_scenario_projection(a.historical, a.target_year,
                               a.loss_fraction, a.forest_area, a.country_iso)
                  IN  IF r.exc # "none"
                      THEN /\ calls' = [calls EXCEPT ![p].result = Raised(r, at)]
                           /\ UNCHANGED frames
                      ELSE /\ frames' = [frames EXCEPT ![ScopeOf(p)].user_scenario = r]
                           /\ calls' = [calls EXCEPT ![p].at = StepAfter(at)]
             [] at = "calculate_trend_projection" ->
                  LET r == calculate_trend_projection(a.historical, a.target_year,
                                                      a.forest_area)
                  IN  IF r.exc # "none"
                      THEN /\ calls' = [calls EXCEPT ![p].result = Raised(r, at)]
                           /\ UNCHANGED frames
                      ELSE /\ frames' = [frames EXCEPT ![ScopeOf(p)].trend_projection = r]
                           /\ calls' = [calls EXCEPT ![p].at = StepAfter(at)]
             [] at = "create_trend_projection_timeline" ->
                  /\ frames' = [frames EXCEPT ![ScopeOf(p)].trend_timeline =
                                   create_trend_projection_timeline(f.trend_projection,
                                       a.historical, a.target_year)]
                  /\ calls' = [calls EXCEPT ![p].at = StepAfter(at)]
             [] at = "assemble" ->
                  LET b == SimulationResult(a.country_iso, a.loss_fraction, a.target_year,
                               a.forest_area, a.emissions, a.historical, f.user_scenario,
                               f.trend_projection, f.trend_timeline)
                  IN  /\ calls' = [calls EXCEPT
                            ![p].result = IF DivisionFault(b)
                                          THEN Fault("ZeroDivisionError",
                                                     "simulate_forest_loss_dual")
                                          ELSE [kind |-> "ok", body |-> b],
                            ![p].at = IF DivisionFault(b) THEN at ELSE StepAfter(at)]
                      /\ UNCHANGED frames
    /\ UNCHANGED <<pc, country_iso, loss_fraction, target_year, forest_area, emissions,
                   historical, user_scenario, trend_projection, trend_timeline, response,
                   req, retry>>

NextPair == \E p \in Invocations : Invoke(p)

SpecPair == InitPair /\ [][NextPair]_vars

Finished(p) == calls[p].result.kind # "none"

\* C14: interleaved in any order, each invocation ends with exactly the
\* result it has when run alone, and two invocations with the same inputs
\* end with the same result.
C14_NoSharedState ==
    pc = "invocations" =>
        /\ \A p \in Invocations : Finished(p) => calls[p].result = RunAlone(calls[p].args)
        /\ (Finished(1) /\ Finished(2) /\ calls[1].args = calls[2].args) =>
              calls[1].result = calls[2].result

\* two invocations with different inputs, both returned, with different results
C14_Witness ==
    /\ pc = "invocations"
    /\ calls[1].result.kind = "ok"
    /\ calls[2].result.kind = "ok"
    /\ calls[1].args # calls[2].args
    /\ calls[1].result # calls[2].result

\* the same inputs twice
C14_RepeatWitness ==
    /\ pc = "invocations"
    /\ calls[1].result.kind = "ok"
    /\ calls[2].result.kind = "ok"
    /\ calls[1].args = calls[2].args

----------------------------------------------------------------------------
(* The comparison with the recent historical average (Spec) *)

UserAverage == response.body.projections.user_scenario.avg_annual_loss_ha

\* mean of the last min(5, len(historical)) historical losses
RecentMean ==
    LET k == IF Len(historical) < 5 THEN Len(historical) ELSE 5
    IN  RDiv(RSum(Losses(SubSeq(historical, Len(historical) - k + 1, Len(historical)))),
             R(k))

\* C21 as stated: user_vs_recent_avg_multiplier is "infinite" exactly when
\* the mean of the last min(5, len(historical)) losses is 0, and otherwise
\* (user_total_loss / years_to_target) / mean rounded to one decimal.
C21_InfiniteIffRecentMeanZero ==
    pc = "returned" =>
        LET m == Comparison.user_vs_recent_avg_multiplier
        IN  /\ (m.t = "infinite") <=> (RecentMean = Zero)
            /\ m.t = "num" =>
                  RoundedToTenth(m.v, RDiv(RDiv(UserTotal, R(user_scenario.years_to_target)),
                                           RecentMean))

\* C21 as the code has it: user_vs_recent_avg_multiplier is "infinite"
\* exactly when the mean of the last min(5, len(historical)) losses is 0 or
\* negative, and otherwise (user_total_loss / years_to_target) / mean rounded
\* to one decimal; with fewer than 5 records the mean is over all of them.
C21_InfiniteIffRecentMeanNotPositive ==
    pc = "returned" =>
        LET m == Comparison.user_vs_recent_avg_multiplier
        IN  /\ (m.t = "infinite") <=> RLe(RecentMean, Zero)
            /\ m.t = "num" =>
                  RoundedToTenth(m.v, RDiv(RDiv(UserTotal, R(user_scenario.years_to_target)),
                                           RecentMean))
            /\ UserAverage = RDiv(UserTotal, R(user_scenario.years_to_target))
            /\ Len(historical) < 5 =>
                  RMul(RecentMean, R(Len(historical))) = RSum(Losses(historical))

\* six records whose first one would change the mean, and a numeric multiplier
C21_Witness ==
    /\ pc = "returned"
    /\ Len(historical) = 6
    /\ Comparison.user_vs_recent_avg_multiplier.t = "num"
    /\ RecentMean # RDiv(RSum(Losses(historical)), R(6))

\* a negative recent mean reported as "infinite"
C21_NegativeMeanWitness ==
    /\ pc = "returned"
    /\ RLt(RecentMean, Zero)
    /\ Comparison.user_vs_recent_avg_multiplier.t = "infinite"

----------------------------------------------------------------------------
(* Carbon totals of the two projections (Spec) *)

ProjectionsOf(b) == {b.projections.user_scenario, b.projections.trend_based}

\* C22: for each projection total_loss_ha is the sum of its timeline's
\* losses, and total_co2_tons is total_loss_ha * (baseline_emissions /
\* forest_area) / 1000 when forest_area > 0 and 0 when forest_area is 0.
C22_CarbonTotals ==
    pc = "returned" =>
        \A p \in ProjectionsOf(response.body) :
            /\ p.total_loss_ha = RSum(Losses(p.timeline))
            /\ RGt(forest_area, Zero) =>
                  p.total_co2_tons =
                     RDiv(RMul(p.total_loss_ha, RDiv(emissions, forest_area)), R(1000))
            /\ forest_area = Zero => p.total_co2_tons = Zero

\* both projections with a positive carbon figure
C22_Witness ==
    /\ pc = "returned"
    /\ RGt(forest_area, Zero)
    /\ RGt(emissions, Zero)
    /\ \A p \in ProjectionsOf(response.body) : RGt(p.total_co2_tons, Zero)
    /\ response.body.projections.user_scenario.total_co2_tons #
          response.body.projections.trend_based.total_co2_tons

\* no forest, emissions on record, losses projected
C22_NoForestWitness ==
    /\ pc = "returned"
    /\ forest_area = Zero
    /\ RGt(emissions, Zero)
    /\ RGt(response.body.projections.trend_based.total_loss_ha, Zero)

----------------------------------------------------------------------------
(* The two timelines of a result (Spec) *)

TrendBased == response.body.projections.trend_based

UserScenario == response.body.projections.user_scenario

\* C27: in every result the trend-based and the user-scenario timeline cover
\* the years last_observed_year+1 .. target_year, one point each; every trend
\* point has loss_ha = annual_loss_ha and the tag projected_trend_based, the
\* trend total is annual_loss_ha * years_to_target, and years_projected is
\* the length of both timelines.
C27_TimelinesAligned ==
    pc = "returned" =>
        LET n == target_year - MaxYear(historical)
        IN  /\ n >= 1
            /\ user_scenario.years_to_target = n
            /\ response.body.analysis_period.years_projected = n
            /\ Len(TrendBased.timeline) = n
            /\ Len(UserScenario.timeline) = n
            /\ \A j \in 1..n :
                  /\ TrendBased.timeline[j].year = MaxYear(historical) + j
                  /\ UserScenario.timeline[j].year = TrendBased.timeline[j].year
                  /\ TrendBased.timeline[j].loss_ha = trend_projection.annual_loss_ha
                  /\ TrendBased.timeline[j].type = "projected_trend_based"
            /\ TrendBased.avg_annual_loss_ha = trend_projection.annual_loss_ha
            /\ TrendBased.total_loss_ha = RMul(trend_projection.annual_loss_ha, R(n))

\* three projected years after a history with gaps, with a positive trend rate
C27_Witness ==
    /\ pc = "returned"
    /\ target_year - MaxYear(historical) = 3
    /\ Len(historical) >= 3
    /\ historical[2].year - historical[1].year = 2
    /\ RGt(trend_projection.annual_loss_ha, Zero)
    /\ Len(TrendBased.timeline) = 3

----------------------------------------------------------------------------
(* get_historical_loss called on its own *)

\* what a record of the remote answer can hold as year and as loss_ha
RawYears ==
    {[t |-> "none"], [t |-> "null_str"], [t |-> "bad_str"]}
    \cup {RawNum(y) : y \in {2000, 2001, 2030, 2031}}

RawLosses ==
    {[t |-> "none"], [t |-> "bad_str"]} \cup {RawNum(R(v)) : v \in {-100, 0, 100}}

RawRecords == {[year |-> y, loss_ha |-> l] : y \in RawYears, l \in RawLosses}

RawListings == UNION {[1..n -> RawRecords] : n \in 0..MaxRaw}

InitHistory ==
    /\ pc = "call"
    /\ country_iso = "BRA"
    /\ loss_fraction = <<1, 10>>
    /\ target_year = 2024
    /\ forest_area = Zero
    /\ emissions = Zero
    /\ historical = <<>>
    /\ InitLocals
    /\ NoRoute
    /\ NoRetry
    /\ frames = <<>>
    /\ calls \in {[fn |-> "get_historical_loss", resp |-> r] : r \in Responses(RawListings)}

CallHistoricalLoss ==
    /\ pc = "call"
    /\ calls.fn = "get_historical_loss"
    /\ LET r == get_historical_loss(calls.resp)
       IN  IF r.exc # "none"
           THEN /\ Raise(r, "get_historical_loss")
                /\ UNCHANGED historical
           ELSE /\ historical' = r.value
                /\ UNCHANGED response
    /\ pc' = "called"
    /\ UNCHANGED <<country_iso, loss_fraction, target_year, forest_area, emissions,
                   user_scenario, trend_projection, trend_timeline, req, retry, calls,
                   frames>>

NextHistory == CallHistoricalLoss

SpecHistory == InitHistory /\ [][NextHistory]_vars

\* the records of the raw answer that have a numeric year in 2001..2030 and a
\* loss_ha that is numeric or absent
Usable(record) ==
    /\ record.year.t = "num"
    /\ record.year.v \in 2001..2030
    /\ record.loss_ha.t \in {"num", "none"}

UsableRecords(raw) == SelectSeq(raw, Usable)

\* C23: get_historical_loss either raises or returns a non-empty list whose
\* records have an integer year in 2001..2030 and a numeric loss_ha; records
\* with a null, non-numeric or out-of-range year are dropped, the others are
\* kept in order, and an empty raw or cleaned result is rejected.
C23_HistoryCleaned ==
    pc = "called" /\ calls.fn = "get_historical_loss" =>
        LET raw == calls.resp.data
            kept == UsableRecords(raw)
            fetched == ~calls.resp.raised /\ calls.resp.status_code = 200
        IN  /\ (response.kind # "none") <=> (~fetched \/ raw = <<>> \/ kept = <<>>)
            /\ response.kind # "none" => historical = <<>>
            /\ (fetched /\ (raw = <<>> \/ kept = <<>>)) => response = HTTPError(500, "get_historical_loss")
            /\ response.kind = "none" =>
                  /\ historical # <<>>
                  /\ Len(historical) = Len(kept)
                  /\ \A j \in 1..Len(historical) :
                        /\ historical[j].year \in 2001..2030
                        /\ historical[j].year = kept[j].year.v
                        /\ ~IsNaR(historical[j].loss_ha)
                        /\ historical[j].loss_ha =
                              IF kept[j].loss_ha.t = "none" THEN Zero ELSE kept[j].loss_ha.v

\* one record kept and one dropped for a year after 2030
C23_Witness ==
    /\ pc = "called"
    /\ calls.fn = "get_historical_loss"
    /\ Len(calls.resp.data) = 2
    /\ calls.resp.data[1].year = RawNum(2031)
    /\ Len(historical) = 1
    /\ historical[1].year = 2030

\* every record dropped: the cleaned list is empty and the call is rejected
C23_AllDroppedWitness ==
    /\ pc = "called"
    /\ calls.fn = "get_historical_loss"
    /\ Len(calls.resp.data) = 2
    /\ calls.resp.data[1].year.t = "null_str"
    /\ calls.resp.data[2].loss_ha.t = "bad_str"
    /\ calls.resp.data[2].year = RawNum(2001)
    /\ response = HTTPError(500, "get_historical_loss")

----------------------------------------------------------------------------
(* parse_nl_query, one model at a time (backend/app/services/nlp.py) *)

\* what one model of the list can answer
ParseAnswers ==
    {[t |-> "fail", why |-> w] : w \in {"exception", "bad_json"}}
    \cup {[t |-> "dict", has_keys |-> k, country_ok |-> TRUE, numeric |-> TRUE,
           forest_loss_percent |-> p, years |-> 5] :
             <<k, p>> \in {<<TRUE, <<10, 1>>>>, <<TRUE, <<150, 1>>>>, <<FALSE, <<10, 1>>>>}}

InitParse ==
    /\ pc = "parse_nl_query"
    /\ country_iso = ""
    /\ loss_fraction = Zero
    /\ target_year = 0
    /\ forest_area = Zero
    /\ emissions = Zero
    /\ historical = <<>>
    /\ InitLocals
    /\ NoRoute
    /\ NoRetry
    /\ frames = <<>>
    /\ calls \in {[fn |-> "parse_nl_query", outs |-> o, current_year |-> 2022,
                   tried |-> <<>>, result |-> [status |-> "none"]] :
                     o \in [1..ModelCount -> ParseAnswers]}

\* one iteration of the loop over model_names_to_try
TryModel ==
    /\ pc = "parse_nl_query"
    /\ calls.result.status = "none"
    /\ Len(calls.tried) < ModelCount
    /\ LET j == Len(calls.tried) + 1
       IN  /\ calls' = [calls EXCEPT
                          !.tried = Append(@, j),
                          !.result = IF ModelFailed(calls.outs[j]) THEN @
                                     ELSE ValidateParsed(calls.outs[j], j,
                                                         calls.current_year)]
           /\ pc' = IF ModelFailed(calls.outs[j]) THEN pc ELSE "called"
    /\ UNCHANGED <<country_iso, loss_fraction, target_year, forest_area, emissions,
                   historical, user_scenario, trend_projection, trend_timeline, response,
                   req, retry, frames>>

\* the loop is over without a return
AllModelsFailed ==
    /\ pc = "parse_nl_query"
    /\ calls.result.status = "none"
    /\ Len(calls.tried) = ModelCount
    /\ calls' = [calls EXCEPT !.result = NlError("All Gemini models failed")]
    /\ pc' = "called"
    /\ UNCHANGED <<country_iso, loss_fraction, target_year, forest_area, emissions,
                   historical, user_scenario, trend_projection, trend_timeline, response,
                   req, retry, frames>>

NextParse == TryModel \/ AllModelsFailed

SpecParse == InitParse /\ [][NextParse]_vars

Parsing == pc \in {"parse_nl_query", "called"} /\ calls.fn = "parse_nl_query"

\* C24 as stated: a model whose parsed content fails validation is not fatal;
\* an error result is returned only after all models of the list have been
\* tried.
C24_ErrorOnlyAfterAllModels ==
    (Parsing /\ calls.result.status = "error") => Len(calls.tried) = ModelCount

\* C24 as the code has it: models are tried strictly in list order and none
\* after one has answered with a JSON object; a call exception, an empty
\* output or unparsable JSON makes the next model be tried; the first JSON
\* object decides: it gives success when it validates and an error result at
\* once when it does not; otherwise the error comes after all models failed.
C24_FirstObjectDecides ==
    Parsing =>
        LET k == Len(calls.tried)
        IN  /\ calls.tried = [j \in 1..k |-> j]
            /\ \A j \in 1..k : j < k => ModelFailed(calls.outs[j])
            /\ calls.result.status = "none" => \A j \in 1..k : calls.outs[j].t = "fail"
            /\ calls.result.status = "success" =>
                  /\ calls.result.model_used = k
                  /\ calls.outs[k].t = "dict"
                  /\ calls.outs[k].has_keys
                  /\ RLe(calls.outs[k].forest_loss_percent, <<100, 1>>)
            /\ calls.result.status = "error" =>
                  \/ /\ k = ModelCount
                     /\ calls.outs[k].t = "fail"
                     /\ calls.result.error = "All Gemini models failed"
                  \/ /\ calls.outs[k].t = "dict"
                     /\ ~calls.outs[k].has_keys
                     /\ calls.result.error = "Missing required keys"
                  \/ /\ calls.outs[k].t = "dict"
                     /\ calls.outs[k].has_keys
                     /\ RGt(calls.outs[k].forest_loss_percent, <<100, 1>>)
                     /\ calls.result.error = "forest_loss_percent must be between 0 and 100"
            /\ calls.result.status # "none" =>
                  calls.result = parse_nl_query(calls.outs, calls.current_year)

\* the second model answers 150 percent and the third would have answered 10
C24_Witness ==
    /\ Parsing
    /\ calls.tried = <<1, 2>>
    /\ calls.outs[1].t = "fail"
    /\ calls.outs[2].t = "dict"
    /\ calls.outs[2].forest_loss_percent = <<150, 1>>
    /\ calls.outs[3].t = "dict"
    /\ calls.outs[3].has_keys
    /\ calls.outs[3].forest_loss_percent = <<10, 1>>
    /\ calls.result.status = "error"

\* success of the third model after two failures
C24_FallbackWitness ==
    /\ Parsing
    /\ calls.tried = <<1, 2, 3>>
    /\ calls.result.status = "success"
    /\ calls.result.model_used = 3

----------------------------------------------------------------------------
(* Attempts of simulate_with_retry (SpecRetry) *)

RetryOver == retry.status \in {"returned", "raised", "returned_none"}

AllOutcomesIn(kinds) ==
    /\ retry.outcomes # <<>>
    /\ \A i \in 1..Len(retry.outcomes) : retry.outcomes[i].exc \in kinds

\* C25: simulate_with_retry makes at most max_retries attempts, returns the
\* first successful attempt's result and attempts nothing after it; when every
\* attempt times out it raises 408 after exactly max_retries attempts, and
\* when every attempt fails with another request error or a generic error it
\* raises 500 after exactly max_retries attempts.
C25_AttemptsBounded ==
    retry.status # "none" =>
        LET n == Len(retry.outcomes)
        IN  /\ n <= retry.max_retries
            /\ \A i \in 1..n : retry.outcomes[i].exc = "none" =>
                  (i = n /\ retry.status = "returned")
            /\ retry.status = "returned" => (n >= 1 /\ retry.outcomes[n].exc = "none")
            /\ retry.status = "running" => (n = retry.attempt /\ n = Len(retry.sleeps))
            /\ (RetryOver /\ AllOutcomesIn({"Timeout"})) =>
                  (retry.status = "raised" /\ retry.raised = 408 /\ n = retry.max_retries)
            /\ (RetryOver /\ AllOutcomesIn({"RequestException", "ValueError",
                                            "ZeroDivisionError"})) =>
                  (retry.status = "raised" /\ retry.raised = 500 /\ n = retry.max_retries)

\* three timeouts, two sleeps of 1 and 2 seconds, then 408
C25_Witness ==
    /\ retry.status = "raised"
    /\ retry.max_retries = 3
    /\ AllOutcomesIn({"Timeout"})
    /\ retry.sleeps = <<1, 2>>
    /\ retry.raised = 408

\* success on the second attempt after a generic error
C25_SuccessWitness ==
    /\ retry.status = "returned"
    /\ retry.max_retries = 3
    /\ Len(retry.outcomes) = 2
    /\ retry.outcomes[1].exc = "ValueError"
    /\ retry.outcomes[2].exc = "none"

----------------------------------------------------------------------------
(* The projection branch of nl_query_handler (SpecRoute) *)

ParsedProjection ==
    /\ req.route = "nl"
    /\ parse_nl_query(req.outs, req.current_year).status = "success"

\* C26: for a successfully parsed projection query nl_query_handler answers
\* with an error only when the simulation itself failed, that is, only after
\* simulate_forest_loss_dual was entered with country, forest_loss_percent /
\* 100 and target_year; otherwise it answers success with the result.
C26_ErrorOnlyWhenSimulationFails ==
    (ParsedProjection /\ response.kind = "error") =>
        /\ CoreEntered
        /\ loss_fraction =
              RDiv(parse_nl_query(req.outs, req.current_year).structured_scenario.forest_loss_percent,
                   R(100))

----------------------------------------------------------------------------
(* The dataset fetchers of backend/app/services/data_fetch.py *)

\* a field of a record of the remote answer: missing, null, a string that is
\* not a number, or a number
FieldVals ==
    {[t |-> "absent"], [t |-> "none"], [t |-> "bad_str"]}
    \cup {[t |-> "num", v |-> v] : v \in {0, 7}}

\* the truth value Python gives the field
Truthy(f) == f.t = "bad_str" \/ (f.t = "num" /\ f.v # 0)

\* int(record.get(key, 0)) / float(record.get(key, 0))
ToNumber(f) ==
    CASE f.t = "absent" -> [exc |-> "none", v |-> 0]
      [] f.t = "none" -> [exc |-> "TypeError", v |-> 0]
      [] f.t = "bad_str" -> [exc |-> "ValueError", v |-> 0]
      [] f.t = "num" -> [exc |-> "none", v |-> f.v]

\* the remote call: it raises, or answers with a status and a body whose
\* JSON parses or not
RemoteAnswers(datas) ==
    {[raised |-> TRUE, status_code |-> 0, json_ok |-> FALSE, data |-> <<>>],
     [raised |-> FALSE, status_code |-> 500, json_ok |-> TRUE, data |-> <<>>],
     [raised |-> FALSE, status_code |-> 200, json_ok |-> FALSE, data |-> <<>>]}
    \cup {[raised |-> FALSE, status_code |-> 200, json_ok |-> TRUE, data |-> d] : d \in datas}

ScalarDatas == {<<>>} \cup {<<[value |-> f]>> : f \in FieldVals}

AreaRecords == {[area_count |-> c, total_area_ha |-> a] : c \in FieldVals, a \in FieldVals}

AreaDatas == UNION {[1..n -> AreaRecords] : n \in 0..MaxRaw}

Returned(rec) == [exc |-> "none", value |-> rec]

Propagated(e) == [exc |-> e, value |-> [status |-> "raised"]]

\* try: ... except Exception as e: return the error record
CatchNothing(body, error_record) == body

CatchAll(body, error_record) ==
    IF body.exc # "none" THEN Returned(error_record) ELSE body

\* the try block of get_tree_cover_gain and get_primary_forest_extent
ScalarBody(resp, no_data_record) ==
    IF resp.raised THEN Propagated("RequestException")
    ELSE IF resp.status_code = 200
    THEN IF ~resp.json_ok THEN Propagated("JSONDecodeError")
         ELSE IF resp.data # <<>> /\ Truthy(resp.data[1].value)
              THEN LET x == ToNumber(resp.data[1].value)
                   IN  IF x.exc # "none" THEN Propagated(x.exc)
                       ELSE Returned([status |-> "success", quantity |-> x.v,
                                      categories |-> <<>>])
              ELSE Returned(no_data_record)
    ELSE Returned(no_data_record)

NoData == [status |-> "no_data", quantity |-> 0, categories |-> <<>>]

ErrorRecord == [status |-> "error", quantity |-> 0, categories |-> <<>>]

get_tree_cover_gain(resp) == CatchAll(ScalarBody(resp, NoData), ErrorRecord)

get_primary_forest_extent(resp) == CatchAll(ScalarBody(resp, NoData), ErrorRecord)

get_fire_alerts(resp) ==
    CatchAll(IF resp.raised THEN Propagated("RequestException")
             ELSE IF resp.status_code = 200
             THEN IF ~resp.json_ok THEN Propagated("JSONDecodeError")
                  ELSE IF resp.data # <<>>
                       THEN LET x == ToNumber(resp.data[1].value)
                            IN  IF x.exc # "none" THEN Propagated(x.exc)
                                ELSE Returned([status |-> "success", quantity |-> x.v,
                                               categories |-> <<>>])
                       ELSE Returned(NoData)
             ELSE Returned(NoData),
             ErrorRecord)

\* the loop over the records of the protected-areas answer; st carries
\* categories and total_protected
RECURSIVE CategoriesLoop(_, _, _)
CategoriesLoop(data, j, st) ==
    IF j > Len(data)
    THEN Returned([status |-> "success", quantity |-> st.total_protected,
                   categories |-> st.categories])
    ELSE LET count == ToNumber(data[j].area_count)
             area == ToNumber(data[j].total_area_ha)
         IN  IF count.exc # "none" THEN Propagated(count.exc)
             ELSE IF area.exc # "none" THEN Propagated(area.exc)
             ELSE CategoriesLoop(data, j + 1,
                      [categories |-> Append(st.categories,
                                             [count |-> count.v, area_ha |-> area.v]),
                       total_protected |-> st.total_protected + area.v])

get_protected_areas_info(resp) ==
    CatchAll(IF resp.raised THEN Propagated("RequestException")
             ELSE IF resp.status_code = 200
             THEN IF ~resp.json_ok THEN Propagated("JSONDecodeError")
                  ELSE IF resp.data # <<>>
                       THEN CategoriesLoop(resp.data, 1,
                                [categories |-> <<>>, total_protected |-> 0])
                       ELSE Returned(NoData)
             ELSE Returned(NoData),
             ErrorRecord)

ScalarFetchers == {"get_tree_cover_gain", "get_fire_alerts", "get_primary_forest_extent"}

NotCalled == [exc |-> "unset", value |-> [status |-> "unset"]]

InitDatasets ==
    /\ pc = "call"
    /\ country_iso = "BRA"
    /\ loss_fraction = Zero
    /\ target_year = 0
    /\ forest_area = Zero
    /\ emissions = Zero
    /\ historical = <<>>
    /\ InitLocals
    /\ NoRoute
    /\ NoRetry
    /\ frames = <<>>
    /\ calls \in {[fn |-> f, resp |-> r, result |-> NotCalled] :
                     f \in ScalarFetchers, r \in RemoteAnswers(ScalarDatas)}
                 \cup {[fn |-> "get_protected_areas_info", resp |-> r, result |-> NotCalled] :
                          r \in RemoteAnswers(AreaDatas)}

CallFetcher(fn, result) ==
    /\ pc = "call"
    /\ calls.fn = fn
    /\ calls' = [calls EXCEPT !.result = result]
    /\ pc' = "called"
    /\ UNCHANGED <<country_iso, loss_fraction, target_year, forest_area, emissions,
                   historical, user_scenario, trend_projection, trend_timeline, response,
                   req, retry, frames>>

CallTreeCoverGain == CallFetcher("get_tree_cover_gain", get_tree_cover_gain(calls.resp))

CallFireAlerts == CallFetcher("get_fire_alerts", get_fire_alerts(calls.resp))

CallProtectedAreas ==
    CallFetcher("get_protected_areas_info", get_protected_areas_info(calls.resp))

CallPrimaryForest ==
    CallFetcher("get_primary_forest_extent", get_primary_forest_extent(calls.resp))

NextDatasets ==
    \/ CallTreeCoverGain
    \/ CallFireAlerts
    \/ CallProtectedAreas
    \/ CallPrimaryForest

SpecDatasets == InitDatasets /\ [][NextDatasets]_vars

FetcherCalled == pc = "called" /\ calls.fn \in ScalarFetchers \cup {"get_protected_areas_info"}

\* C30: whatever the remote call does (success, non-200 status, empty data,
\* malformed body, network exception), a dataset fetcher returns a record:
\* no exception leaves it, the status is success, no_data or error, and the
\* quantity is 0 and the category list empty unless the status is success.
C30_FetchersNeverRaise ==
    FetcherCalled =>
        /\ calls.result.exc = "none"
        /\ calls.result.value.status \in {"success", "no_data", "error"}
        /\ calls.result.value.status # "success" =>
              /\ calls.result.value.quantity = 0
              /\ calls.result.value.categories = <<>>
        /\ (calls.resp.raised \/ (calls.resp.status_code = 200 /\ ~calls.resp.json_ok)) =>
              calls.result.value.status = "error"
        /\ (~calls.resp.raised /\ calls.resp.status_code # 200) =>
              calls.result.value.status = "no_data"

\* a protected-areas answer whose second record has a null area
C30_Witness ==
    /\ FetcherCalled
    /\ calls.fn = "get_protected_areas_info"
    /\ Len(calls.resp.data) = 2
    /\ calls.resp.data[1].total_area_ha = [t |-> "num", v |-> 7]
    /\ calls.resp.data[1].area_count.t = "num"
    /\ calls.resp.data[2].total_area_ha.t = "none"
    /\ calls.result.value.status = "error"

\* a tree-cover-gain answer with a number
C30_SuccessWitness ==
    /\ FetcherCalled
    /\ calls.fn = "get_tree_cover_gain"
    /\ calls.result.value.status = "success"
    /\ calls.result.value.quantity = 7

----------------------------------------------------------------------------
(* get_comprehensive_historical_data (backend/app/routers/nl.py) *)

\* country_info: areaHa and whether the geometry is a non-empty object
GeostoreDatas == {[areaHa |-> a, geometry |-> g] : a \in {Zero, R(1000)}, g \in BOOLEAN}

\* one answer of the remote service per dataset, or an exception inside
\* get_comprehensive_forest_data
DatasetRemotes ==
    {[raised |-> TRUE, gain |-> a, fire |-> a, areas |-> a, primary |-> a] :
        a \in {CHOOSE r \in RemoteAnswers({}) : r.raised}}
    \cup {[raised |-> FALSE, gain |-> g, fire |-> f, areas |-> a, primary |-> p] :
            g \in {r \in RemoteAnswers({<<[value |-> [t |-> "num", v |-> 7]]>>}) :
                     r.raised \/ r.data # <<>>},
            f \in {r \in RemoteAnswers({<<[value |-> [t |-> "num", v |-> 7]]>>}) :
                     r.data # <<>>},
            a \in {r \in RemoteAnswers({}) : r.raised},
            p \in {r \in RemoteAnswers({<<[value |-> [t |-> "num", v |-> 7]]>>}) :
                     r.raised \/ r.data # <<>>}}

\* results[...] = get_...(geostore_id or geometry)
get_comprehensive_forest_data(remotes) ==
    [present |-> TRUE,
     tree_cover_gain |-> get_tree_cover_gain(remotes.gain).value,
     fire_alerts |-> get_fire_alerts(remotes.fire).value,
     protected_areas |-> get_protected_areas_info(remotes.areas).value,
     primary_forest |-> get_primary_forest_extent(remotes.primary).value]

NotAvailable == [status |-> "not_available", quantity |-> 0, categories |-> <<>>]

\* comprehensive_data = {} and comprehensive_data.get(key, default)
NoDatasets ==
    [present |-> FALSE, tree_cover_gain |-> NotAvailable, fire_alerts |-> NotAvailable,
     protected_areas |-> NotAvailable, primary_forest |-> NotAvailable]

\* try: value = fetch(...)  except Exception: value = default
RecoverNothing(r, default) == r

Recover(r, default) == IF r.exc # "none" THEN [exc |-> "none", value |-> default] ELSE r

\* "success" if forest_area > 0 else "estimated"
ForestAreaQuality(fa) == IF RGt(fa, Zero) THEN "success" ELSE "estimated"

HistoricalYears(h) ==
    IF h # <<>> THEN [t |-> "range", first |-> MinYear(h), last |-> MaxYear(h)]
    ELSE [t |-> "No data", first |-> 0, last |-> 0]

Aborted(code) == [exc |-> "HTTPException", status_code |-> code, value |-> <<>>]

get_comprehensive_historical_data(c) ==
    LET geo == get_geostore(c.geostore)
    IN  IF geo.exc = "HTTPException" THEN Aborted(geo.status_code)
        ELSE IF geo.exc # "none" THEN Aborted(500)
        ELSE
    LET area_ha == geo.value.areaHa
        geometry == geo.value.geometry
        fa == IF geometry
              THEN Recover(get_forest_area(c.forest), RMul(area_ha, <<3, 10>>))
              ELSE [exc |-> "none", value |-> Zero]
        em == IF geometry
              THEN Recover(get_carbon_emissions(c.emissions), Zero)
              ELSE [exc |-> "none", value |-> Zero]
        hist == Recover(get_historical_loss(c.history), <<>>)
        comp == IF geometry
                THEN Recover(IF c.datasets.raised THEN [exc |-> "Exception"]
                             ELSE [exc |-> "none",
                                   value |-> get_comprehensive_forest_data(c.datasets)],
                             NoDatasets)
                ELSE [exc |-> "none", value |-> NoDatasets]
        steps == <<fa.exc, em.exc, hist.exc, comp.exc>>
    IN  IF \E j \in 1..4 : steps[j] # "none"
        THEN [exc |-> steps[CHOOSE j \in 1..4 : steps[j] # "none"],
              status_code |-> 0, value |-> <<>>]
        ELSE [exc |-> "none", status_code |-> 200,
              value |->
                 [total_area_ha |-> area_ha,
                  forest_area_ha |-> fa.value,
                  baseline_emissions_Mg_CO2e |-> em.value,
                  analysis_period |-> [historical_years |-> HistoricalYears(hist.value)],
                  combined_timeseries |->
                     [j \in 1..Len(hist.value) |->
                         Point(hist.value[j].year, hist.value[j].loss_ha, "observed")],
                  summary |->
                     [historical_records |-> Len(hist.value),
                      historical_total_loss_ha |->
                         IF hist.value # <<>> THEN RSum(Losses(hist.value)) ELSE Zero],
                  tree_cover_gain |-> comp.value.tree_cover_gain,
                  fire_alerts |-> comp.value.fire_alerts,
                  protected_areas |-> comp.value.protected_areas,
                  primary_forest |-> comp.value.primary_forest,
                  data_quality |->
                     [geostore |-> "success",
                      forest_area |-> ForestAreaQuality(fa.value),
                      emissions |-> IF RGt(em.value, Zero) THEN "success"
                                    ELSE "unavailable",
                      historical_loss |-> IF Len(hist.value) > 0 THEN "success"
                                          ELSE "unavailable",
                      additional_datasets |-> IF comp.value.present THEN "partial"
                                              ELSE "unavailable"]]]

InitComprehensive ==
    /\ pc = "call"
    /\ country_iso = "BRA"
    /\ loss_fraction = Zero
    /\ target_year = 0
    /\ forest_area = Zero
    /\ emissions = Zero
    /\ historical = <<>>
    /\ InitLocals
    /\ NoRoute
    /\ NoRetry
    /\ frames = <<>>
    /\ calls \in {[fn |-> "get_comprehensive_historical_data", geostore |-> g,
                   forest |-> f, emissions |-> e, history |-> h, datasets |-> d,
                   result |-> NotCalled] :
                     g \in Responses(GeostoreDatas),
                     f \in Responses(BaselineDatas({Zero, R(500)})),
                     e \in Responses(BaselineDatas({Zero, R(50000)})),
                     h \in Responses({<<>>} \cup
                                     {RawOf(x) : x \in {y \in LinearHistories : Len(y) = 3}}),
                     d \in DatasetRemotes}

CallComprehensive ==
    /\ pc = "call"
    /\ calls.fn = "get_comprehensive_historical_data"
    /\ calls' = [calls EXCEPT !.result = get_comprehensive_historical_data(calls)]
    /\ pc' = "called"
    /\ UNCHANGED <<country_iso, loss_fraction, target_year, forest_area, emissions,
                   historical, user_scenario, trend_projection, trend_timeline, response,
                   req, retry, frames>>

NextComprehensive == CallComprehensive

SpecComprehensive == InitComprehensive /\ [][NextComprehensive]_vars

ComprehensiveCalled == pc = "called" /\ calls.fn = "get_comprehensive_historical_data"

ComprehensiveReturned == ComprehensiveCalled /\ calls.result.exc = "none"

GeostoreFetched == get_geostore(calls.geostore).exc = "none"

HasGeometry == GeostoreFetched /\ calls.geostore.data.geometry

ForestFetched == HasGeometry /\ get_forest_area(calls.forest).exc = "none"

ForestEstimated == HasGeometry /\ get_forest_area(calls.forest).exc # "none"

\* C28: data_quality.forest_area is "success" only when the forest-area
\* fetch succeeded, and "estimated" whenever the fetch failed and
\* forest_area_ha is the 30% estimate.
C28_ForestQualityTellsFetch ==
    ComprehensiveReturned =>
        /\ calls.result.value.data_quality.forest_area = "success" => ForestFetched
        /\ ForestEstimated => calls.result.value.data_quality.forest_area = "estimated"

\* C29: get_comprehensive_historical_data raises, and then an HTTPException,
\* exactly when the geostore fetch fails; a failure of a later fetch leaves
\* the default in the returned result: the 30% estimate, emissions 0, an
\* empty history with "No data" and total 0, datasets not_available.
C29_OnlyGeostoreAborts ==
    ComprehensiveCalled =>
        LET v == calls.result.value
        IN  /\ calls.result.exc \in {"none", "HTTPException"}
            /\ (calls.result.exc = "none") <=> GeostoreFetched
            /\ (~GeostoreFetched /\ ~calls.geostore.raised) => calls.result.status_code = 404
            /\ calls.geostore.raised => calls.result.status_code = 500
            /\ ComprehensiveReturned =>
                  /\ ForestEstimated =>
                        v.forest_area_ha = RMul(calls.geostore.data.areaHa, <<3, 10>>)
                  /\ ForestFetched => v.forest_area_ha = get_forest_area(calls.forest).value
                  /\ (HasGeometry /\ get_carbon_emissions(calls.emissions).exc # "none") =>
                        v.baseline_emissions_Mg_CO2e = Zero
                  /\ get_historical_loss(calls.history).exc # "none" =>
                        /\ v.combined_timeseries = <<>>
                        /\ v.analysis_period.historical_years.t = "No data"
                        /\ v.summary.historical_records = 0
                        /\ v.summary.historical_total_loss_ha = Zero
                  /\ get_historical_loss(calls.history).exc = "none" =>
                        v.summary.historical_records = 3
                  /\ (HasGeometry /\ calls.datasets.raised) =>
                        /\ v.tree_cover_gain = NotAvailable
                        /\ v.fire_alerts = NotAvailable
                        /\ v.protected_areas = NotAvailable
                        /\ v.primary_forest = NotAvailable
                        /\ v.data_quality.additional_datasets = "unavailable"

\* the geostore is fetched and every later fetch fails
C29_Witness ==
    /\ ComprehensiveReturned
    /\ HasGeometry
    /\ calls.geostore.data.areaHa = R(1000)
    /\ calls.forest.raised
    /\ calls.emissions.status_code = 500
    /\ calls.history.data = <<>>
    /\ ~calls.history.raised
    /\ calls.history.status_code = 200
    /\ calls.datasets.raised
    /\ calls.result.value.forest_area_ha = R(300)

====
